---- MODULE Spec2Model ----
(***************************************************************************)
(* Trading and settlement core of the prediction-market exchange:          *)
(*   backend/market/services/amm/{lmsr,money,state,quote_core,execution,   *)
(*   settlement}.py                                                        *)
(*                                                                         *)
(* Numbers.  Python floats and Decimals are held as integers scaled by FX  *)
(* (x is held as x * FX), so 1.0 is FX, one cent is FX / 100.  The decimal *)
(* quanta of the code keep their order, at the resolution of the model:    *)
(*   float resolution  <  SHARES_QUANT  <  MONEY_QUANT.                    *)
(***************************************************************************)
EXTENDS Integers, Sequences, FiniteSets, TLC

-----------------------------------------------------------------------------
(* Fixed-point arithmetic standing for Python float arithmetic.            *)

FX == 10000

Abs(x) == IF x < 0 THEN -x ELSE x
Max2(a, b) == IF a >= b THEN a ELSE b
Min2(a, b) == IF a <= b THEN a ELSE b

\* a * b / FX for a, b >= 0, split so that no partial product overflows
MulPos(a, b) ==
    LET a1 == a \div FX
        a0 == a % FX
        b1 == b \div FX
        b0 == b % FX
    IN  a1 * b1 * FX + a1 * b0 + a0 * b1 + ((a0 * b0 + FX \div 2) \div FX)

SignOf(a, b) == IF (a < 0) = (b < 0) THEN 1 ELSE -1

MulFx(a, b) == SignOf(a, b) * MulPos(Abs(a), Abs(b))

\* a * FX / b, rounded to nearest, for a >= 0, b > 0
DivPos(a, b) == (a \div b) * FX + (((a % b) * FX + b \div 2) \div b)

DivFx(a, b) == SignOf(a, b) * DivPos(Abs(a), Abs(b))

\* e and the number of series terms kept
EFX == 27183
ExpTerms == 10
LnTerms == 7

RECURSIVE ExpSeries(_, _, _)
\* sum of f^k / k! for k = n .. ExpTerms, given term = f^(n-1)/(n-1)!, 0 <= f < FX
ExpSeries(f, n, term) ==
    IF n > ExpTerms \/ term = 0 THEN 0
    ELSE ExpSeries(f, n + 1, (term * f + (FX * n) \div 2) \div (FX * n))
         + (term * f + (FX * n) \div 2) \div (FX * n)

RECURSIVE ExpPow(_, _)
\* v * e^n for n >= 0
ExpPow(v, n) == IF n = 0 THEN v ELSE ExpPow(MulPos(v, EFX), n - 1)

ExpNonNeg(x) == ExpPow(FX + ExpSeries(x % FX, 1, FX), x \div FX)

\* e^x from e^|x|
ExpSigned(x, e) == IF x >= 0 THEN e ELSE (FX * FX) \div e

\* math.exp
ExpFx(x) == ExpSigned(x, ExpNonNeg(Abs(x)))

RECURSIVE LnSeries(_, _, _, _)
\* sum of z^(2i+1) / (2i+1) for i = n .. LnTerms, given pw = z^(2n+1)
LnSeries(z2, n, pw, acc) ==
    IF n > LnTerms \/ pw = 0 THEN acc
    ELSE LnSeries(z2, n + 1, MulPos(pw, z2), acc + (pw + n) \div (2 * n + 1))

\* k + 2 * atanh(z)
LnAtanh(z, k) == k * FX + 2 * LnSeries(MulPos(z, z), 0, z, 0)

RECURSIVE LnNorm(_, _)
\* ln(y) for y > 0: scale y into [1, e), then 2 * atanh((m - 1) / (m + 1))
LnNorm(y, k) ==
    IF y >= EFX THEN LnNorm(DivPos(y, EFX), k + 1)
    ELSE IF y < FX THEN LnNorm(MulPos(y, EFX), k - 1)
    ELSE LnAtanh(DivPos(y - FX, y + FX), k)

\* math.log; the caller guards y > 0 (math.log raises on y <= 0)
LnFx(y) == LnNorm(y, 0)

RECURSIVE SeqSum(_)
SeqSum(s) == IF s = <<>> THEN 0 ELSE Head(s) + SeqSum(Tail(s))

RECURSIVE SeqMax(_)
SeqMax(s) == IF Len(s) = 1 THEN s[1] ELSE Max2(Head(s), SeqMax(Tail(s)))

-----------------------------------------------------------------------------
(* lmsr.py                                                                 *)

\* m + log(sum(exp(x - m)))
LogSumExpAt(xs, m) == m + LnFx(SeqSum([i \in 1..Len(xs) |-> ExpFx(xs[i] - m)]))

logsumexp(xs) == LogSumExpAt(xs, SeqMax(xs))

Log1pExpCut == 50

\* log(1 + e) for e = exp(x), short-cut for large |x|
Log1pOf(x, e) ==
    IF x > Log1pExpCut * FX THEN x
    ELSE IF x < -(Log1pExpCut * FX) THEN e
    ELSE LnFx(FX + e)

log1p_exp(x) == Log1pOf(x, ExpFx(x))

\* q_i / b
Scaled(q, b) == [i \in 1..Len(q) |-> DivFx(q[i], b)]

\* softmax from the shifted exponentials
Normalised(exps, s) == [i \in 1..Len(exps) |-> DivFx(exps[i], s)]
ShiftedExps(scaled, m) == [i \in 1..Len(scaled) |-> ExpFx(scaled[i] - m)]
\* faulty variant of Softmax: the exponentials are not divided by their sum
SoftmaxWithoutSum(exps) == exps
Softmax(exps) == Normalised(exps, SeqSum(exps))
SoftmaxOf(scaled) == Softmax(ShiftedExps(scaled, SeqMax(scaled)))

prices(q, b) == SoftmaxOf(Scaled(q, b))

cost(q, b) == MulFx(b, logsumexp(Scaled(q, b)))

\* log S - log a_k
LogRatio(scaled, option_index) == logsumexp(scaled) - scaled[option_index]

\* "ok = FALSE" stands for the exception math.log raises on t = 0
DeltaQ(b, log_ratio, t) ==
    IF t <= 0 THEN [ok |-> FALSE, v |-> 0]
    ELSE [ok |-> TRUE, v |-> MulFx(b, log1p_exp(LnFx(t) + log_ratio))]

buy_amount_to_delta_q(q, b, option_index, amount_net) ==
    DeltaQ(b, LogRatio(Scaled(q, b), option_index), ExpFx(DivFx(amount_net, b)) - FX)

-----------------------------------------------------------------------------
(* money.py                                                                *)

\* Decimal quanta, in FX units: money_quant 0.01, shares 0.001
MONEY_QUANT == 100
SHARES_QUANT == 10
BPS == 10000

\* Decimal.quantize(quant, ROUND_DOWN / ROUND_UP) of x >= 0 given as num / den
QuantDown(num, den, quant) == (num \div (den * quant)) * quant
QuantUp(num, den, quant) == ((num + den * quant - 1) \div (den * quant)) * quant

quantize_money_down(x) == QuantDown(x, 1, MONEY_QUANT)
quantize_money_up(x) == QuantUp(x, 1, MONEY_QUANT)
quantize_shares(x) == QuantDown(x, 1, SHARES_QUANT)

\* faulty variant of fee_up: the fee is charged at half the pool's rate
fee_at_half_rate(x, fee_bps) == QuantUp(x * fee_bps, 2 * BPS, MONEY_QUANT)

\* quantize_money(x * fee_rate, ROUND_UP), fee_rate = fee_bps / 10000
fee_up(x, fee_bps) == QuantUp(x * fee_bps, BPS, MONEY_QUANT)

fee_rate_ok(fee_bps) == fee_bps >= 0 /\ fee_bps < BPS

bps_of(p) ==
    LET c == IF p < 0 THEN 0 ELSE IF p > FX THEN FX ELSE p
    IN  (c * BPS + FX \div 2) \div FX

bps_from_probabilities(probs) == [i \in 1..Len(probs) |-> bps_of(probs[i])]

\* int(round(x / y * 10000.0)) for x >= 0, y > 0
price_bps(x, y) == (((x \div y) * BPS) + (((x % y) * BPS + y \div 2) \div y))

-----------------------------------------------------------------------------
(* state.py                                                                *)

NoneId == "none"
NoneNum == -1

\* position of x in the sequence s (0 when absent); with repeats, the last one,
\* as a dict comprehension {x: i for i, x in enumerate(s)} keeps it
RECURSIVE LastIdx(_, _, _)
LastIdx(s, x, i) == IF i = 0 THEN 0 ELSE IF s[i] = x THEN i ELSE LastIdx(s, x, i - 1)

option_id_to_idx(st, oid) == LastIdx(st.option_ids, oid, Len(st.option_ids))
option_index_to_idx(st, oi) == LastIdx(st.option_indexes, oi, Len(st.option_indexes))

\* 0 stands for QuoteInputError
resolve_target_idx(st, option_id, option_index) ==
    IF option_id # NoneId
    THEN IF option_id_to_idx(st, option_id) # 0 THEN option_id_to_idx(st, option_id)
         ELSE IF option_id \in DOMAIN st.no_to_yes THEN st.no_to_yes[option_id].idx
         ELSE 0
    ELSE IF option_index # NoneNum THEN option_index_to_idx(st, option_index)
    ELSE 0

-----------------------------------------------------------------------------
(* quote_math.py                                                           *)

\* gross_max(k) = -b * log(1 - p_k); unbounded when p_k = 1
max_gross_payout(p_k, b) ==
    IF p_k >= FX THEN [inf |-> TRUE, v |-> 0]
    ELSE [inf |-> FALSE, v |-> -MulFx(b, LnFx(FX - p_k))]

SolveFrom(b, p_k, r) ==
    IF p_k <= 0 \/ r <= 0 THEN [ok |-> FALSE, v |-> 0]
    ELSE [ok |-> TRUE, v |-> -MulFx(b, LnFx(r))]

\* shares s with cost(q) - cost(q - s e_k) = gross:
\*   s = -b * log(1 - (1 - exp(-gross / b)) / p_k)
solve_sell_shares_for_gross_payout(p_k, b, gross) ==
    SolveFrom(b, p_k, IF p_k > 0 THEN FX - DivFx(FX - ExpFx(-DivFx(gross, b)), p_k) ELSE 0)

-----------------------------------------------------------------------------
(* quote_core.py                                                           *)

QuoteError == [err |-> TRUE, amount |-> 0, shares |-> 0, fee_amount |-> 0,
               avg_price_bps |-> 0, pre_prob_bps |-> <<>>, post_prob_bps |-> <<>>,
               deltas |-> <<>>, net |-> 0]

QuoteOk(amount, shares, fee, avg, pre, post, deltas) ==
    [err |-> FALSE, amount |-> amount, shares |-> shares, fee_amount |-> fee,
     avg_price_bps |-> avg, pre_prob_bps |-> pre, post_prob_bps |-> post,
     deltas |-> deltas, net |-> 0]

\* the quote of a buy together with the amount that went to the AMM
WithNet(quote, net) == IF quote.err THEN quote ELSE [quote EXCEPT !.net = net]

SeqAdd(a, d) == [i \in 1..Len(a) |-> a[i] + d[i]]
AddAt(a, k, d) == [i \in 1..Len(a) |-> IF i = k THEN a[i] + d ELSE a[i]]

RECURSIVE SumExcept(_, _, _)
SumExcept(s, k, i) ==
    IF i = 0 THEN 0 ELSE (IF i = k THEN 0 ELSE s[i]) + SumExcept(s, k, i - 1)

\* the delta of outcome j for its share of the net amount
NoBuyDelta(st, target_idx, amount, j) ==
    IF j = target_idx \/ amount <= 0 THEN [ok |-> TRUE, v |-> 0]
    ELSE buy_amount_to_delta_q(st.q, st.b, j, amount)

NoBuyCollect(ds) ==
    IF \E j \in 1..Len(ds) : ~ds[j].ok THEN [ok |-> FALSE, deltas |-> <<>>, total |-> 0]
    ELSE [ok |-> TRUE, deltas |-> [j \in 1..Len(ds) |-> ds[j].v],
          total |-> SeqSum([j \in 1..Len(ds) |-> ds[j].v])]

NoBuyDeltasAt(st, target_idx, net, probs, other_prob_sum) ==
    IF Len(st.q) < 2 \/ other_prob_sum <= 0 THEN [ok |-> FALSE, deltas |-> <<>>, total |-> 0]
    ELSE NoBuyCollect([j \in 1..Len(st.q) |->
            NoBuyDelta(st, target_idx, MulFx(net, DivFx(probs[j], other_prob_sum)), j)])

NoBuyDeltasFor(st, target_idx, net, probs) ==
    NoBuyDeltasAt(st, target_idx, net, probs, SumExcept(probs, target_idx, Len(probs)))

\* deltas[j] for j # target_idx; ok = FALSE stands for QuoteMathError / ValueError
compute_no_buy_deltas(st, target_idx, net) ==
    NoBuyDeltasFor(st, target_idx, net, prices(st.q, st.b))

QuoteBuyShares(st, amount_in, fee, shares_out, q_post, deltas) ==
    IF shares_out = 0 THEN QuoteError
    ELSE QuoteOk(quantize_money_up(amount_in), shares_out, fee,
                 price_bps(amount_in, shares_out),
                 bps_from_probabilities(prices(st.q, st.b)),
                 bps_from_probabilities(prices(q_post, st.b)), deltas)

QuoteBuyNo(st, amount_in, fee, nb) ==
    IF ~nb.ok \/ nb.total <= 0 THEN QuoteError
    ELSE QuoteBuyShares(st, amount_in, fee, quantize_shares(nb.total),
                        SeqAdd(st.q, nb.deltas), nb.deltas)

QuoteBuyStandard(st, target_idx, amount_in, fee, dq) ==
    IF ~dq.ok \/ dq.v <= 0 THEN QuoteError
    ELSE QuoteBuyShares(st, amount_in, fee, quantize_shares(dq.v),
                        AddAt(st.q, target_idx, dq.v), <<>>)

QuoteBuyNet(st, target_idx, amount_in, is_no_side, fee) ==
    IF amount_in <= 0 \/ amount_in - fee <= 0 THEN QuoteError
    ELSE IF is_no_side /\ st.is_exclusive
    THEN QuoteBuyNo(st, amount_in, fee, compute_no_buy_deltas(st, target_idx, amount_in - fee))
    ELSE QuoteBuyStandard(st, target_idx, amount_in, fee,
             buy_amount_to_delta_q(st.q, st.b, target_idx, amount_in - fee))

\* side = "buy" with amount_in (lines 118-189): net_dec = gross_in_dec - fee_dec
quote_buy(st, target_idx, amount_in, is_no_side) ==
    WithNet(QuoteBuyNet(st, target_idx, amount_in, is_no_side,
                        fee_up(amount_in, st.fee_bps)),
            amount_in - fee_up(amount_in, st.fee_bps))

\* quantize_money(net_cost_dec / one_minus_fee, ROUND_UP)
gross_up(net_cost_dec, fee_bps) == QuantUp(net_cost_dec * BPS, BPS - fee_bps, MONEY_QUANT)

QuoteBuyCost(st, target_idx, shares, q_post, net_cost_dec) ==
    WithNet(QuoteOk(gross_up(net_cost_dec, st.fee_bps), shares,
                    gross_up(net_cost_dec, st.fee_bps) - net_cost_dec,
                    price_bps(gross_up(net_cost_dec, st.fee_bps), shares),
                    bps_from_probabilities(prices(st.q, st.b)),
                    bps_from_probabilities(prices(q_post, st.b)), <<>>),
            net_cost_dec)

QuoteBuyPost(st, target_idx, shares, q_post, net_cost) ==
    IF net_cost <= 0 THEN QuoteError
    ELSE QuoteBuyCost(st, target_idx, shares, q_post, quantize_money_up(net_cost))

\* side = "buy" with shares (lines 191-227): the net cost is grossed up by the fee
quote_buy_shares(st, target_idx, shares) ==
    IF shares <= 0 THEN QuoteError
    ELSE QuoteBuyPost(st, target_idx, shares, AddAt(st.q, target_idx, shares),
                      cost(AddAt(st.q, target_idx, shares), st.b) - cost(st.q, st.b))

\* gross rounded down, fee up, net down
ProceedsOf(st, gross, gross_dec) ==
    [gross |-> gross, fee |-> fee_up(gross_dec, st.fee_bps),
     net |-> IF gross_dec - fee_up(gross_dec, st.fee_bps) > 0
             THEN quantize_money_down(gross_dec - fee_up(gross_dec, st.fee_bps)) ELSE 0]

ProceedsGross(st, gross) ==
    ProceedsOf(st, gross, IF gross > 0 THEN quantize_money_down(gross) ELSE 0)

\* proceeds of moving q to q_post
SellProceeds(st, q_post) == ProceedsGross(st, cost(st.q, st.b) - cost(q_post, st.b))

QuoteSellOk(st, shares, q_post, pr, deltas) ==
    IF pr.gross <= 0 \/ pr.net <= 0 THEN QuoteError
    ELSE QuoteOk(pr.net, shares, pr.fee, price_bps(pr.net, shares),
                 bps_from_probabilities(prices(st.q, st.b)),
                 bps_from_probabilities(prices(q_post, st.b)), deltas)

QuoteSellPost(st, shares, q_post, deltas) ==
    QuoteSellOk(st, shares, q_post, SellProceeds(st, q_post), deltas)

NoSellDeltas(st, target_idx, shares, probs, other_prob_sum) ==
    [j \in 1..Len(st.q) |-> IF j = target_idx THEN 0
                            ELSE -MulFx(shares, DivFx(probs[j], other_prob_sum))]

QuoteSellNoAt(st, target_idx, shares, probs, other_prob_sum) ==
    IF other_prob_sum <= 0 THEN QuoteError
    ELSE QuoteSellPost(st, shares,
             SeqAdd(st.q, NoSellDeltas(st, target_idx, shares, probs, other_prob_sum)),
             NoSellDeltas(st, target_idx, shares, probs, other_prob_sum))

QuoteSellNo(st, target_idx, shares, probs) ==
    QuoteSellNoAt(st, target_idx, shares, probs, SumExcept(probs, target_idx, Len(probs)))

\* side = "sell" with shares (lines 229-318)
quote_sell_shares(st, target_idx, shares, is_no_side) ==
    IF shares <= 0 THEN QuoteError
    ELSE IF is_no_side /\ st.is_exclusive
    THEN QuoteSellNo(st, target_idx, shares, prices(st.q, st.b))
    ELSE QuoteSellPost(st, shares, AddAt(st.q, target_idx, -shares), <<>>)

\* the solved quote is returned without a check of its proceeds (lines 347-370)
QuoteSellReturned(st, shares, q_post, pr) ==
    QuoteOk(pr.net, shares, pr.fee, price_bps(pr.net, shares),
            bps_from_probabilities(prices(st.q, st.b)),
            bps_from_probabilities(prices(q_post, st.b)), <<>>)

QuoteSellShares(st, target_idx, shares_needed) ==
    IF shares_needed = 0 THEN QuoteError
    ELSE QuoteSellReturned(st, shares_needed, AddAt(st.q, target_idx, -shares_needed),
                           SellProceeds(st, AddAt(st.q, target_idx, -shares_needed)))

QuoteSellSolved(st, target_idx, sol) ==
    IF ~sol.ok \/ sol.v <= 0 THEN QuoteError
    ELSE QuoteSellShares(st, target_idx, quantize_shares(sol.v))

QuoteSellGross(st, target_idx, p_k, gross_needed, mx) ==
    IF ~mx.inf /\ gross_needed >= mx.v THEN QuoteError
    ELSE QuoteSellSolved(st, target_idx,
             solve_sell_shares_for_gross_payout(p_k, st.b, gross_needed))

QuoteSellAmountAt(st, target_idx, desired_dec, p_k) ==
    QuoteSellGross(st, target_idx, p_k,
                   QuantUp(desired_dec * BPS, BPS - st.fee_bps, MONEY_QUANT),
                   max_gross_payout(p_k, st.b))

\* side = "sell" with a desired net amount_out, carried by amount_in (lines 320-370)
quote_sell_amount(st, target_idx, desired) ==
    IF desired <= 0 THEN QuoteError
    ELSE QuoteSellAmountAt(st, target_idx, quantize_money_down(desired),
                           prices(st.q, st.b)[target_idx])

\* exactly one of amount_in, shares is given (the other is NoneNum)
quote_from_state(st, option_id, option_index, side, amount_in, shares, is_no_side) ==
    LET target_idx == resolve_target_idx(st, option_id, option_index)
    IN  IF (amount_in = NoneNum) = (shares = NoneNum) THEN QuoteError
        ELSE IF ~fee_rate_ok(st.fee_bps) \/ target_idx = 0 THEN QuoteError
        ELSE IF side = "buy" /\ amount_in # NoneNum
        THEN quote_buy(st, target_idx, amount_in, is_no_side)
        ELSE IF side = "buy" THEN quote_buy_shares(st, target_idx, shares)
        ELSE IF shares # NoneNum THEN quote_sell_shares(st, target_idx, shares, is_no_side)
        ELSE quote_sell_amount(st, target_idx, amount_in)

-----------------------------------------------------------------------------
(* The deployment under study: one independent event with one binary      *)
(* market (NO = index 0, YES = index 1) that owns a market-level pool,     *)
(* two traders, two concurrent request handlers.                           *)

Procs == {"p1", "p2"}
Users == {"u1", "u2"}
Events == {"e1"}
Markets == {"m1"}
Pools == {"pl1"}
Options == {"o0", "o1"}
DEFAULT_TOKEN == "USDC"

\* rows no handler of this model writes
MarketEvent(m) == "e1"
GroupRule(e) == "independent"
MarketIsHidden(m) == FALSE
EventIsHidden(e) == FALSE
OptionRow(o) ==
    [market |-> "m1", option_index |-> IF o = "o0" THEN 0 ELSE 1,
     side |-> IF o = "o0" THEN "no" ELSE "yes", is_active |-> TRUE]
PoolOfMarket(m) == "pl1"
PoolOfEvent(e) == NoneId
PoolRowStatic(pl) == [b |-> 2 * FX, fee_bps |-> 200, collateral_token |-> DEFAULT_TOKEN]
\* AmmPoolOptionState rows of a pool, ordered by (option__option_index, option_id)
PoolStates(pl) == <<"o0", "o1">>

NoRow == [exists |-> FALSE, shares |-> 0, cost_basis |-> 0]
NoBalance == [exists |-> FALSE, available_amount |-> 0]

InitDb ==
    [market |-> [m \in Markets |->
                   [status |-> "active", resolved_option_index |-> NoneNum,
                    resolved_at |-> FALSE, settled_at |-> FALSE,
                    settlement_tx_id |-> NoneId]],
     event |-> [e \in Events |->
                   [status |-> "active", resolved_at |-> FALSE,
                    resolved_market_id |-> NoneId]],
     pool |-> [pl \in Pools |->
                   [pool_cash |-> 0, collateral_amount |-> (3 * FX) \div 4,
                    status |-> "active"]],
     q |-> [o \in Options |-> 0],
     prob_bps |-> [o \in Options |-> BPS \div 2],
     balance |-> [k \in Users \X {DEFAULT_TOKEN} |->
                   [exists |-> TRUE,
                    available_amount |-> IF k[1] = "u1" THEN 2 * FX ELSE FX]],
     position |-> [k \in Users \X Options |-> NoRow],
     settlements |-> {},
     intents |-> <<>>,
     trades |-> <<>>]

-----------------------------------------------------------------------------
(* Transactions: row locks, uncommitted writes, commit and rollback        *)

VARIABLES db, w, held, pc, call, loc, res, paid, clock, quote_args, quoted,
          amm_payload, amm_pools, funded, ens, b_calls, grp, cch, stl, dep, fin

vars == <<db, w, held, pc, call, loc, res, paid, clock, quote_args, quoted, amm_payload, amm_pools, funded, ens, b_calls, grp, cch, stl, dep, fin>>

Row(kind, a, b) == <<kind, a, b>>

\* faulty variant of Free: rows are read without FOR UPDATE, nobody waits
FreeWithoutLock(p, rs) == TRUE

\* no other transaction holds a lock on any row of rs
Free(p, rs) == \A o \in Procs \ {p} : held[o] \cap rs = {}

EmptyW ==
    [market |-> <<>>, event |-> <<>>, pool |-> <<>>, q |-> <<>>, prob_bps |-> <<>>,
     balance |-> <<>>, position |-> <<>>, settlements |-> {}, intents |-> <<>>,
     trades |-> <<>>, paid |-> <<>>]

Over(f, g) == [k \in DOMAIN f |-> IF k \in DOMAIN g THEN g[k] ELSE f[k]]
Put(g, k, v) == [x \in (DOMAIN g) \cup {k} |-> IF x = k THEN v ELSE g[x]]
PutAll(g, h) == [x \in (DOMAIN g) \cup (DOMAIN h) |-> IF x \in DOMAIN h THEN h[x] ELSE g[x]]

\* what a transaction with uncommitted writes wp reads (READ COMMITTED)
Visible(d, wp) ==
    [market |-> Over(d.market, wp.market),
     event |-> Over(d.event, wp.event),
     pool |-> Over(d.pool, wp.pool),
     q |-> Over(d.q, wp.q),
     prob_bps |-> Over(d.prob_bps, wp.prob_bps),
     balance |-> Over(d.balance, wp.balance),
     position |-> Over(d.position, wp.position),
     settlements |-> d.settlements \cup wp.settlements,
     intents |-> d.intents \o wp.intents,
     trades |-> d.trades \o wp.trades]

\* leaving transaction.atomic normally / by an exception
Commit(d, wp) == Visible(d, wp)
\* faulty variant of Rollback: the writes of a failed transaction stay
RollbackKeepsWrites(d, wp) == Visible(d, wp)
Rollback(d, wp) == d

NoCall ==
    [op |-> "none", user |-> NoneId, market |-> NoneId, option_id |-> NoneId,
     option_index |-> NoneNum, amount_in |-> NoneNum, min_shares_out |-> NoneNum,
     max_slippage_bps |-> NoneNum, shares |-> NoneNum, desired_amount_out |-> NoneNum,
     min_amount_out |-> NoneNum, sell_all |-> FALSE, settlement_tx_id |-> NoneId,
     client_nonce |-> NoneId, now |-> NoneNum, locked_at |-> NoneNum,
     wallet_id |-> NoneId]

NoLoc ==
    [total_payout |-> 0, pool_cash_used |-> 0, collateral_used |-> 0, user_ids |-> <<>>,
     already_resolved |-> FALSE, already_settled |-> FALSE, settlement_tx_id |-> NoneId,
     q |-> <<>>, pool |-> <<>>]

NoRes ==
    [code |-> "none", option |-> NoneId, amount |-> 0, shares |-> 0, dust_cleanup |-> FALSE,
     already_resolved |-> FALSE, already_settled |-> FALSE,
     settlement_tx_id |-> NoneId, total_payout |-> 0, pool_cash_used |-> 0,
     collateral_used |-> 0, need |-> 0, available |-> 0, pool_cash |-> 0]

\* no quote has been asked for
NoQuoteArgs ==
    [st |-> [b |-> 0, fee_bps |-> 0, option_ids |-> <<>>, option_indexes |-> <<>>,
             q |-> <<>>, no_to_yes |-> <<>>, is_exclusive |-> FALSE],
     option_index |-> NoneNum, side |-> "none", amount_in |-> NoneNum, shares |-> NoneNum,
     is_no_side |-> FALSE, answered |-> FALSE]

\* an AMM parameter object of an API payload; a key that is absent or null is NoneNum
NoAmm == [initial_funding_amount |-> NoneNum, b |-> NoneNum, fee_bps |-> NoneNum]

\* no create_event request and no direct ensure_pool_initialized call
NoAmmPayload ==
    [path |-> "none", group_rule |-> "standalone", amm |-> NoAmm, markets |-> <<>>,
     done |-> FALSE, err |-> FALSE]

\* the amm_pools table: the event-level pool and the pools of the event's markets
PoolKeys == {"event", "m1", "m2"}
NoAmmPool == [exists |-> FALSE, b |-> 0, fee_bps |-> 0, collateral_amount |-> 0,
              num_outcomes |-> 0, initial_funding |-> NoneNum]
NoAmmPools == [k \in PoolKeys |-> NoAmmPool]

\* the amm_pools and amm_pool_option_state tables with no row, and no
\* ensure_pool_initialized call in progress
NoEnsureTx ==
    [pc |-> "idle", raw |-> <<>>, params |-> <<>>, pool_ins |-> <<>>, state_ins |-> {}]
NoEnsure ==
    [key |-> NoneId, pools |-> <<>>, states |-> {}, calls |-> 0,
     tx |-> [p \in {"p1", "p2"} |-> NoEnsureTx]]

\* no exclusive event with a funded pool
\* no compute_b_from_funding call under study
NoBCalls == [funding_amount |-> 0, out |-> <<>>]

\* no event with several markets under study
NoGroup ==
    [group_rule |-> "", market |-> <<>>, event |-> [status |-> "", resolved_market |-> 0],
     pool |-> <<>>, balance |-> 0, pos |-> <<>>, deadline_passed |-> FALSE,
     op |-> "none", target |-> 0, side |-> "", code |-> "none", calls |-> 0]

\* the pool-state cache of a market, the trades on it and a reader of it; q counts
\* the committed trades, failed the trades rolled back, invalidations the cache deletions
NoCache ==
    [on |-> FALSE, q |-> 0, failed |-> 0, invalidations |-> 0, cached |-> NoneNum,
     tx |-> [p \in {"p1", "p2"} |-> "idle"],
     reader |-> [pc |-> "idle", since |-> 0, q |-> 0],
     stored |-> [since |-> NoneNum, q |-> NoneNum]]

\* no settlements of two markets under study
\* the redemption codes and the Stripe checkout sessions: each credits its amount once
Codes == {"c1"}
Sessions == {"s1"}
CodeAmount(code) == FX
SessionAmount(session) == FX \div 2

\* the finance windows the scheduler has created, each with its market and pool
Windows == {"fw1", "fw2"}
WindowSymbol(wn) == IF wn = "fw1" THEN "BTC" ELSE "ETH"
WindowEnd(wn) == IF wn = "fw1" THEN 1 ELSE 2
FinanceStart ==
    [now |-> 0,
     price |-> [sym \in {"BTC", "ETH"} |-> NoneNum],
     win |-> [wn \in Windows |->
                [close_price |-> NoneNum,
                 prev_close_price |-> IF wn = "fw1" THEN 2 ELSE NoneNum,
                 status |-> "active", q |-> <<0, 0>>, shares |-> <<0, 0>>,
                 pool_cash |-> 0, collateral_amount |-> 0,
                 paid |-> 0, settlements |-> 0]],
     pc |-> "sleep", due |-> <<>>, row_price |-> NoneNum, stops |-> 0, failures |-> 0]

\* no code is used, no Stripe deposit is recorded, no deposit is under way
NoDeposits ==
    [codes |-> [c \in Codes |-> "active"],
     chain_events |-> {},
     tx |-> [p \in {"p1", "p2"} |-> [source |-> "none", available |-> -1]]]

NoSettlements ==
    [winners |-> [t \in {"p1", "p2"} |-> {}],
     tx |-> [t \in {"p1", "p2"} |-> [pc |-> "idle", user_ids |-> <<>>, locked |-> {}]]]

NoFunded ==
    [N |-> 0, b |-> 0, fee_bps |-> 0, initial_funding |-> 0, q |-> <<>>, pool_cash |-> 0,
     collateral_amount |-> 0, balance |-> 0, yes |-> <<>>, no |-> <<>>, status |-> <<>>,
     event_active |-> FALSE, winner |-> 0, trades |-> 0, collateral_used |-> 0,
     code |-> "none", yes_bps |-> <<>>, no_bps |-> <<>>, other_balance |-> 0,
     second |-> [balance |-> 0, yes |-> <<>>, no |-> <<>>]]

\* the database and the request handlers before the first call
Started ==
    /\ db = InitDb
    /\ w = [p \in Procs |-> EmptyW]
    /\ held = [p \in Procs |-> {}]
    /\ pc = [p \in Procs |-> "idle"]
    /\ call = [p \in Procs |-> NoCall]
    /\ loc = [p \in Procs |-> NoLoc]
    /\ res = [p \in Procs |-> NoRes]
    /\ paid = [k \in Users \X Options |-> 0]
    /\ clock = 0
    /\ fin = FinanceStart
    /\ dep = NoDeposits

Init ==
    /\ Started
    /\ quote_args = NoQuoteArgs
    /\ quoted = QuoteError
    /\ amm_payload = NoAmmPayload
    /\ amm_pools = NoAmmPools
    /\ funded = NoFunded
    /\ ens = NoEnsure
    /\ b_calls = NoBCalls
    /\ grp = NoGroup
    /\ cch = NoCache
    /\ stl = NoSettlements

\* a response is handed over before anything else is scheduled: handing over
\* touches no shared state, so every interleaving is equivalent to one of these
Delivered == \A p \in Procs : pc[p] # "done"

\* the steps below say what becomes of every variable but call
\* the handler of p leaves its transaction by an exception
Raise(p, wp, r) ==
    /\ db' = Rollback(db, wp)
    /\ w' = [w EXCEPT ![p] = EmptyW]
    /\ held' = [held EXCEPT ![p] = {}]
    /\ pc' = [pc EXCEPT ![p] = "done"]
    /\ loc' = [loc EXCEPT ![p] = NoLoc]
    /\ res' = [res EXCEPT ![p] = r]
    /\ UNCHANGED <<paid, clock, quote_args, quoted, amm_payload, amm_pools, funded, ens, b_calls, grp, cch, stl,
                   dep, fin>>

\* the handler of p returns r and its transaction commits
Return(p, wp, r) ==
    /\ db' = Commit(db, wp)
    /\ paid' = [k \in DOMAIN paid |-> paid[k] + IF k \in DOMAIN wp.paid THEN wp.paid[k] ELSE 0]
    /\ w' = [w EXCEPT ![p] = EmptyW]
    /\ held' = [held EXCEPT ![p] = {}]
    /\ pc' = [pc EXCEPT ![p] = "done"]
    /\ loc' = [loc EXCEPT ![p] = NoLoc]
    /\ res' = [res EXCEPT ![p] = r]
    /\ UNCHANGED <<clock, quote_args, quoted, amm_payload, amm_pools, funded, ens, b_calls, grp, cch, stl,
                   dep, fin>>

\* the handler of p goes on to step next holding the rows rs as well
GotoLoc(p, next, rs, wp, l) ==
    /\ pc' = [pc EXCEPT ![p] = next]
    /\ held' = [held EXCEPT ![p] = @ \cup rs]
    /\ w' = [w EXCEPT ![p] = wp]
    /\ loc' = [loc EXCEPT ![p] = l]
    /\ UNCHANGED <<db, res, paid, clock, quote_args, quoted, amm_payload, amm_pools, funded, ens, b_calls, grp, cch, stl,
                   dep, fin>>

Goto(p, next, rs, wp) == GotoLoc(p, next, rs, wp, loc[p])

Err(code) == [NoRes EXCEPT !.code = code]

-----------------------------------------------------------------------------
(* execution.py: the steps shared by execute_buy and execute_sell          *)

MaxTrades == 2

\* callers that name the option by its id send client_nonce n1 with every order,
\* callers that name it by its index send none
ClientNonce(s) == IF s[1] # NoneId THEN "n1" ELSE NoneId

BuyCalls ==
    { [NoCall EXCEPT !.op = "buy", !.user = u, !.market = "m1", !.option_id = s[1],
                     !.option_index = s[2], !.amount_in = a, !.min_shares_out = ms,
                     !.client_nonce = ClientNonce(s)]
      : u \in Users, s \in {<<"o1", NoneNum>>, <<NoneId, 0>>},
        a \in {FX, FX \div 20}, ms \in {NoneNum, (3 * FX) \div 2} }

SellCalls ==
    { [NoCall EXCEPT !.op = "sell", !.user = u, !.market = "m1", !.option_id = s[1],
                     !.option_index = s[2], !.shares = md[1], !.sell_all = md[2],
                     !.client_nonce = ClientNonce(s)]
      : u \in Users, s \in {<<"o1", NoneNum>>, <<NoneId, 0>>},
        md \in {<<FX \div 2, FALSE>>, <<NoneNum, TRUE>>} }

\* _to_decimal and the argument checks made before the transaction opens
buy_params_ok(c) ==
    /\ c.amount_in > 0
    /\ c.min_shares_out = NoneNum \/ c.min_shares_out > 0
    /\ c.max_slippage_bps = NoneNum \/ c.max_slippage_bps >= 0

sell_params_ok(c) ==
    /\ c.sell_all \/ c.shares # NoneNum \/ c.desired_amount_out # NoneNum
    /\ c.shares = NoneNum \/ c.shares > 0
    /\ c.desired_amount_out = NoneNum \/ c.desired_amount_out > 0
    /\ c.min_amount_out = NoneNum \/ c.min_amount_out > 0

\* MarketOption.objects.get(pk=option_id, market=market) or
\* .get(option_index=option_index, market=market); NoneId for DoesNotExist
FindOption(m, option_id, option_index) ==
    LET found == IF option_id # NoneId
                 THEN {o \in Options : o = option_id /\ OptionRow(o).market = m}
                 ELSE {o \in Options : OptionRow(o).option_index = option_index
                                        /\ OptionRow(o).market = m}
    IN  IF found = {} THEN NoneId ELSE CHOOSE o \in found : TRUE

\* market.trading_deadline or the event's: every market closes at time 1
TradingDeadline(m) == 1

\* deadline and deadline <= now
DeadlinePassed(m, now) == TradingDeadline(m) # NoneNum /\ TradingDeadline(m) <= now

\* the checks of _lock_market_and_option once market and event are locked
lock_market_and_option(d, c) ==
    LET m == c.market
        e == MarketEvent(m)
        option == FindOption(m, c.option_id, c.option_index)
    IN  IF e # NoneId /\ (d.event[e].status # "active" \/ EventIsHidden(e))
        THEN "EVENT_NOT_ACTIVE"
        ELSE IF d.market[m].status # "active" \/ MarketIsHidden(m) THEN "MARKET_NOT_ACTIVE"
        ELSE IF DeadlinePassed(m, c.now) THEN "MARKET_CLOSED"
        ELSE IF c.option_id = NoneId /\ c.option_index = NoneNum THEN "INVALID_PARAM"
        ELSE IF option = NoneId THEN "OPTION_NOT_FOUND"
        ELSE IF ~OptionRow(option).is_active THEN "OPTION_NOT_ACTIVE"
        ELSE "OK"

\* the pool a market trades against: its own, else its event's
PoolFor(m) ==
    IF PoolOfMarket(m) # NoneId THEN PoolOfMarket(m)
    ELSE IF MarketEvent(m) # NoneId THEN PoolOfEvent(MarketEvent(m))
    ELSE NoneId

PoolIsExclusive(m) ==
    /\ PoolOfMarket(m) = NoneId
    /\ MarketEvent(m) # NoneId
    /\ PoolOfEvent(MarketEvent(m)) # NoneId
    /\ GroupRule(MarketEvent(m)) = "exclusive"

\* No option_id -> (Yes option_id, pool idx) over the markets of the pool's options
build_no_to_yes_mapping(option_ids) ==
    LET n == Len(option_ids)
        yes_idx(mk) == LastIdx([i \in 1..n |-> OptionRow(option_ids[i]).market], mk, n)
        nos == {o \in Options : /\ \A i \in 1..n : option_ids[i] # o
                                /\ OptionRow(o).side = "no"
                                /\ yes_idx(OptionRow(o).market) # 0}
    IN  [o \in nos |-> [yes |-> option_ids[yes_idx(OptionRow(o).market)],
                        idx |-> yes_idx(OptionRow(o).market)]]

\* the PoolState _lock_pool_state builds from the locked rows
lock_pool_state(d, m) ==
    LET pl == PoolFor(m)
        ids == PoolStates(pl)
    IN  [b |-> PoolRowStatic(pl).b, fee_bps |-> PoolRowStatic(pl).fee_bps,
         option_ids |-> ids,
         option_indexes |-> [i \in 1..Len(ids) |-> OptionRow(ids[i]).option_index],
         q |-> [i \in 1..Len(ids) |-> d.q[ids[i]]],
         no_to_yes |-> IF PoolIsExclusive(m) THEN build_no_to_yes_mapping(ids) ELSE <<>>,
         is_exclusive |-> PoolIsExclusive(m)]

\* faulty variant of trade_first_lock: the user's balance row is locked first
trade_first_lock_balance(c) == {Row("balance", c.user, DEFAULT_TOKEN)}

\* lock order 1): Market.objects.select_for_update() comes before any other row
trade_first_lock(c) == {Row("market", c.market, "")}

\* begin: transaction.atomic opens and the market row is locked; now was read
\* (line 137) when the call entered, which is no later than the lock is granted
trade_begin(p, calls) ==
    /\ Delivered
    /\ pc[p] = "idle"
    /\ Len(db.trades) < MaxTrades
    /\ \E c \in calls, now \in 0..clock :
        /\ Free(p, trade_first_lock(c))
        /\ call' = [call EXCEPT ![p] = [c EXCEPT !.now = now, !.locked_at = clock]]
        /\ IF (c.op = "buy" /\ ~buy_params_ok(c)) \/ (c.op = "sell" /\ ~sell_params_ok(c))
           THEN Raise(p, EmptyW, Err("INVALID_PARAM"))
           ELSE Goto(p, "trade_event", trade_first_lock(c), EmptyW)

trade_lock_market(p) == trade_begin(p, BuyCalls \cup SellCalls)

\* the event row is locked, market and option are validated, the option row locked
trade_lock_event(p) ==
    /\ Delivered
    /\ pc[p] = "trade_event"
    /\ UNCHANGED call
    /\ LET c == call[p]
           e == MarketEvent(c.market)
           rs == IF e = NoneId THEN {} ELSE {Row("event", e, "")}
           code == lock_market_and_option(Visible(db, w[p]), c)
       IN  /\ Free(p, rs)
           /\ IF code # "OK" THEN Raise(p, w[p], Err(code))
              ELSE Goto(p, "trade_pool",
                        rs \cup {Row("option", FindOption(c.market, c.option_id, c.option_index), "")},
                        w[p])

\* is the traded option a No option that the pool maps to a Yes option
IsNoSide(st, option) == option \in DOMAIN st.no_to_yes

\* the checks between locking the pool and locking the balance
pool_checks(c, st, option) ==
    IF IsNoSide(st, option)
    THEN IF option_id_to_idx(st, st.no_to_yes[option].yes) = 0 THEN "POOL_MAPPING_ERROR"
         ELSE IF option_id_to_idx(st, st.no_to_yes[option].yes) # st.no_to_yes[option].idx
         THEN "POOL_MAPPING_ERROR"
         ELSE "OK"
    ELSE IF c.op = "sell" /\ option_id_to_idx(st, option) = 0 THEN "POOL_MISMATCH"
    ELSE "OK"

\* the pool and option_states objects _lock_pool_state returns hold the column
\* values read when the rows were locked
read_pool_rows(d, l, pl) ==
    [l EXCEPT !.q = [o \in {PoolStates(pl)[i] : i \in 1..Len(PoolStates(pl))} |-> d.q[o]],
              !.pool = [x \in {pl} |-> d.pool[pl]]]

\* the database as the transaction's model objects show it: q and the pool row as
\* they were read under lock, everything else as it is now
AsLocked(d, l) == [d EXCEPT !.q = Over(@, l.q), !.pool = Over(@, l.pool)]

\* the pool row and all its option-state rows are locked
trade_lock_pool(p) ==
    /\ Delivered
    /\ pc[p] = "trade_pool"
    /\ UNCHANGED call
    /\ LET c == call[p]
           pl == PoolFor(c.market)
           option == FindOption(c.market, c.option_id, c.option_index)
       IN  IF pl = NoneId THEN Raise(p, w[p], Err("POOL_NOT_FOUND"))
           ELSE LET rs == {Row("pool", pl, "")}
                          \cup {Row("state", PoolStates(pl)[i], "") : i \in 1..Len(PoolStates(pl))}
                    st == lock_pool_state(Visible(db, w[p]), c.market)
                IN  /\ Free(p, rs)
                    /\ IF st.b <= 0 THEN Raise(p, w[p], Err("POOL_INVALID"))
                       ELSE IF Len(st.option_ids) = 0 THEN Raise(p, w[p], Err("POOL_STATE_NOT_FOUND"))
                       ELSE IF pool_checks(c, st, option) # "OK"
                       THEN Raise(p, w[p], Err(pool_checks(c, st, option)))
                       ELSE GotoLoc(p, "trade_balance", rs, w[p],
                                    read_pool_rows(Visible(db, w[p]), loc[p], pl))

\* _lock_balance: the row is locked, or created with amount 0 when missing
lock_balance(d, wp, key) ==
    IF d.balance[key].exists THEN wp
    ELSE [wp EXCEPT !.balance = Put(@, key, [exists |-> TRUE, available_amount |-> 0])]

\* _lock_position: the row is locked, or created empty when missing
lock_position(d, wp, key) ==
    IF d.position[key].exists THEN wp
    ELSE [wp EXCEPT !.position = Put(@, key, [exists |-> TRUE, shares |-> 0, cost_basis |-> 0])]

trade_lock_balance(p) ==
    /\ Delivered
    /\ pc[p] = "trade_balance"
    /\ UNCHANGED call
    /\ LET c == call[p]
           key == <<c.user, DEFAULT_TOKEN>>
           w1 == lock_balance(Visible(db, w[p]), w[p], key)
           balance == Visible(db, w1).balance[key]
       IN  /\ Free(p, {Row("balance", c.user, DEFAULT_TOKEN)})
           /\ IF c.op = "buy" /\ balance.available_amount < c.amount_in
              THEN Raise(p, w1, Err("INSUFFICIENT_BALANCE"))
              ELSE Goto(p, "trade_position", {Row("balance", c.user, DEFAULT_TOKEN)}, w1)

\* _recompute_option_probs: the displayed probabilities follow the stored q
recompute_option_probs(d0, wp, st) ==
    LET n == Len(st.option_ids)
        q == [i \in 1..n |-> Visible(d0, wp).q[st.option_ids[i]]]
        bps == bps_from_probabilities(prices(q, st.b))
        yes == [o \in {st.option_ids[i] : i \in 1..n} |-> bps[option_id_to_idx(st, o)]]
        no == [o \in {x \in DOMAIN st.no_to_yes : OptionRow(x).is_active} |->
                 BPS - bps[st.no_to_yes[o].idx]]
    IN  [wp EXCEPT !.prob_bps = IF st.is_exclusive THEN PutAll(PutAll(@, yes), no)
                                ELSE PutAll(@, yes)]

\* max_slippage_bps: the average price may exceed the pre-trade price by that much
slippage_bps_check(c, quote, is_no_side, target_idx) ==
    LET expected_bps == IF is_no_side THEN BPS - quote.pre_prob_bps[target_idx]
                        ELSE quote.pre_prob_bps[target_idx]
    IN  IF c.max_slippage_bps = NoneNum THEN "OK"
        ELSE IF expected_bps <= 0 THEN "SLIPPAGE_PROTECTION"
        ELSE IF quote.avg_price_bps * BPS > expected_bps * (BPS + c.max_slippage_bps)
        THEN "SLIPPAGE_PROTECTION"
        ELSE "OK"

\* faulty variant of buy_checks: min_shares_out is not compared with the quote
buy_checks_without_min_shares(c, st, option, quote) ==
    LET is_no_side == IsNoSide(st, option)
        target_idx == IF is_no_side THEN st.no_to_yes[option].idx
                      ELSE option_id_to_idx(st, option)
    IN  IF quote.err THEN "QUOTE_MATH_ERROR"
        ELSE IF quote.shares <= 0 THEN "AMOUNT_TOO_LOW"
        ELSE IF ~is_no_side /\ target_idx = 0 THEN "POOL_MISMATCH"
        ELSE slippage_bps_check(c, quote, is_no_side, target_idx)

\* the guards of execute_buy between the quote and the first write
buy_checks(c, st, option, quote) ==
    LET is_no_side == IsNoSide(st, option)
        target_idx == IF is_no_side THEN st.no_to_yes[option].idx
                      ELSE option_id_to_idx(st, option)
    IN  IF quote.err THEN "QUOTE_MATH_ERROR"
        ELSE IF quote.shares <= 0 THEN "AMOUNT_TOO_LOW"
        ELSE IF ~is_no_side /\ target_idx = 0 THEN "POOL_MISMATCH"
        ELSE IF c.min_shares_out # NoneNum /\ quote.shares < c.min_shares_out
        THEN "SLIPPAGE_PROTECTION"
        ELSE slippage_bps_check(c, quote, is_no_side, target_idx)

\* faulty variant of buy_q: the shares of a buy are not added to q
buy_q_unchanged(d, st, option, quote) ==
    [o \in {st.option_ids[option_id_to_idx(st, option)]} |-> d.q[o]]

\* q after a buy: every positive delta of a No-side buy, else the target's shares_out
buy_q(d, st, option, quote) ==
    LET n == Len(st.option_ids)
        is_no_side == IsNoSide(st, option)
        target_idx == IF is_no_side THEN st.no_to_yes[option].idx
                      ELSE option_id_to_idx(st, option)
    IN  IF is_no_side /\ Len(quote.deltas) > 0
        THEN [o \in {st.option_ids[i] : i \in {j \in 1..n : quote.deltas[j] > 0}} |->
                d.q[o] + quote.deltas[option_id_to_idx(st, o)]]
        ELSE [o \in {st.option_ids[target_idx]} |-> d.q[o] + quote.shares]

\* faulty variant of buy_pool: the pool keeps the amount net of the fee
buy_pool_net_of_fee(pool, c, quote) ==
    [pool EXCEPT !.pool_cash = @ + (c.amount_in - quote.fee_amount)]

\* OrderIntent.id is a BigAutoField: the rows of the table are numbered as inserted
NextIntentId(d) == Len(d.intents) + 1

\* tx_hash=f"offchain:{order_intent.id}"
OffchainTxHash(id) == <<"offchain", id>>

\* pool.pool_cash grows by the gross amount paid (lines 621-624)
buy_pool(pool, c, quote) == [pool EXCEPT !.pool_cash = @ + c.amount_in]

\* the Wallet rows: every user owns one wallet, the primary one
Wallets == {"w1", "w2"}
WalletUser(wallet_id) == IF wallet_id = "w1" THEN "u1" ELSE "u2"

\* faulty variant of ensure_wallet: the wallet named by the caller is taken as it is
ensure_wallet_unchecked(c) ==
    IF c.wallet_id # NoneId THEN c.wallet_id
    ELSE CHOOSE wallet \in Wallets : WalletUser(wallet) = c.user

\* _ensure_wallet: the wallet named by the caller if it is the user's (NoneId stands
\* for WALLET_NOT_FOUND), else the user's primary wallet
ensure_wallet(c) ==
    IF c.wallet_id # NoneId
    THEN IF c.wallet_id \in Wallets /\ WalletUser(c.wallet_id) = c.user
         THEN c.wallet_id ELSE NoneId
    ELSE CHOOSE wallet \in Wallets : WalletUser(wallet) = c.user

\* the writes of a buy made before the wallet is looked up (lines 548-582)
buy_applied(d0, wp, c, st, option, quote) ==
    LET d == Visible(d0, wp)
        bkey == <<c.user, DEFAULT_TOKEN>>
        pkey == <<c.user, option>>
    IN  recompute_option_probs(d0,
            [wp EXCEPT
                 !.balance = Put(@, bkey, [d.balance[bkey] EXCEPT
                                             !.available_amount = @ - c.amount_in]),
                 !.position = Put(@, pkey, [d.position[pkey] EXCEPT
                                             !.shares = @ + quote.shares,
                                             !.cost_basis = @ + c.amount_in]),
                 !.q = PutAll(@, buy_q(d, st, option, quote))], st)

\* the writes of a buy that passed every guard (lines 548-624)
buy_writes(d0, wp, c, st, option, quote) ==
    LET d == Visible(d0, wp)
        bkey == <<c.user, DEFAULT_TOKEN>>
        pkey == <<c.user, option>>
        pl == PoolFor(c.market)
        w1 == [wp EXCEPT
                 !.balance = Put(@, bkey, [d.balance[bkey] EXCEPT
                                             !.available_amount = @ - c.amount_in]),
                 !.position = Put(@, pkey, [d.position[pkey] EXCEPT
                                             !.shares = @ + quote.shares,
                                             !.cost_basis = @ + c.amount_in]),
                 !.q = PutAll(@, buy_q(d, st, option, quote))]
    IN  [recompute_option_probs(d0, w1, st) EXCEPT
           !.intents = Append(@, [id |-> NextIntentId(d), user |-> c.user,
                                  market |-> c.market, option |-> option,
                                  side |-> "buy", amount_in |-> c.amount_in,
                                  shares_out |-> quote.shares, status |-> "confirmed",
                                  client_nonce |-> c.client_nonce]),
           !.trades = Append(@, [tx_hash |-> OffchainTxHash(NextIntentId(d)),
                                 user |-> c.user, market |-> c.market, option |-> option,
                                 side |-> "buy", amount_in |-> c.amount_in,
                                 shares |-> quote.shares, price_bps |-> quote.avg_price_bps,
                                 fee_amount |-> quote.fee_amount]),
           !.pool = Put(@, pl, buy_pool(d.pool[pl], c, quote))]

BuyResult(c, option, quote) ==
    [NoRes EXCEPT !.code = "OK", !.option = option, !.amount = c.amount_in,
                  !.shares = quote.shares]

\* the quote a trade asks for: a No option of an exclusive pool is quoted on its Yes option
trade_quote(c, st, option, side, amount_in, shares) ==
    quote_from_state(st,
        IF IsNoSide(st, option) THEN st.no_to_yes[option].yes ELSE c.option_id,
        IF IsNoSide(st, option) THEN NoneNum ELSE c.option_index,
        side, amount_in, shares, IsNoSide(st, option))

\* a quoted buy is rejected by a guard, or written and committed
buy_quoted(p, wp, c, st, option, quote) ==
    IF buy_checks(c, st, option, quote) # "OK"
    THEN Raise(p, wp, Err(buy_checks(c, st, option, quote)))
    ELSE IF ensure_wallet(c) = NoneId
    THEN Raise(p, buy_applied(AsLocked(db, loc[p]), wp, c, st, option, quote),
               Err("WALLET_NOT_FOUND"))
    ELSE Return(p, buy_writes(AsLocked(db, loc[p]), wp, c, st, option, quote),
                BuyResult(c, option, quote))

buy_locked(p, wp, c, st, option) ==
    buy_quoted(p, wp, c, st, option, trade_quote(c, st, option, "buy", c.amount_in, NoneNum))

\* the position row is locked (or created), the trade is quoted, checked and written
execute_buy(p) ==
    /\ Delivered
    /\ pc[p] = "trade_position"
    /\ UNCHANGED call
    /\ call[p].op = "buy"
    /\ LET c == call[p]
           option == FindOption(c.market, c.option_id, c.option_index)
           w1 == lock_position(Visible(db, w[p]), w[p], <<c.user, option>>)
       IN  /\ Free(p, {Row("position", c.user, option)})
           /\ buy_locked(p, w1, c,
                         lock_pool_state(Visible(AsLocked(db, loc[p]), w1), c.market), option)

\* a position of at most 0.1 shares is cleaned up by sell_all without a quote
DUST_THRESHOLD == FX \div 10
\* a quote may exceed the position by less than 0.01 shares
SellTolerance == FX \div 100

\* shares actually taken from the position: the quoted shares_in, clamped
shares_to_sell(position, quote) ==
    IF quote.shares > position.shares /\ quote.shares - position.shares < SellTolerance
    THEN position.shares ELSE quote.shares

\* the guards of execute_sell between the quote and the first write
sell_checks(c, position, quote) ==
    IF quote.err THEN "QUOTE_MATH_ERROR"
    ELSE IF quote.shares <= 0 THEN "INVALID_PARAM"
    ELSE IF shares_to_sell(position, quote) > position.shares THEN "INSUFFICIENT_SHARES"
    ELSE IF quote.amount <= 0 THEN "AMOUNT_TOO_LOW"
    ELSE IF c.min_amount_out # NoneNum /\ quote.amount < c.min_amount_out
    THEN "SLIPPAGE_PROTECTION"
    ELSE "OK"

\* q after a sell: every non-zero delta of a No-side sell, else the target's shares
sell_q(d, st, option, quote, sold) ==
    LET n == Len(st.option_ids)
        is_no_side == IsNoSide(st, option)
        target_idx == IF is_no_side THEN st.no_to_yes[option].idx
                      ELSE option_id_to_idx(st, option)
    IN  IF is_no_side /\ Len(quote.deltas) > 0
        THEN [o \in {st.option_ids[i] : i \in {j \in 1..n : quote.deltas[j] # 0}} |->
                d.q[o] + quote.deltas[option_id_to_idx(st, o)]]
        ELSE [o \in {st.option_ids[target_idx]} |-> d.q[o] - sold]

\* faulty variant of sell_pool: the pool pays out the gross proceeds
sell_pool_gross(pool, quote) ==
    [pool EXCEPT !.pool_cash = @ - (quote.amount + quote.fee_amount)]

\* pool.pool_cash shrinks by the net amount paid out (lines 869-872)
sell_pool(pool, quote) == [pool EXCEPT !.pool_cash = @ - quote.amount]

\* the writes of a sell made before the wallet is looked up (lines 790-829)
sell_applied(d0, wp, c, st, option, quote) ==
    LET d == Visible(d0, wp)
        bkey == <<c.user, DEFAULT_TOKEN>>
        pkey == <<c.user, option>>
        position == d.position[pkey]
        sold == shares_to_sell(position, quote)
        cost_reduction == IF position.shares > 0
                          THEN (position.cost_basis * sold) \div position.shares ELSE 0
    IN  recompute_option_probs(d0,
            [wp EXCEPT
                 !.position = Put(@, pkey, [position EXCEPT
                                 !.shares = @ - sold,
                                 !.cost_basis = Max2(0, @ - cost_reduction)]),
                 !.q = PutAll(@, sell_q(d, st, option, quote, sold)),
                 !.balance = Put(@, bkey, [d.balance[bkey] EXCEPT
                                             !.available_amount = @ + quote.amount])], st)

\* the writes of a sell that passed every guard (lines 790-872)
sell_writes(d0, wp, c, st, option, quote) ==
    LET d == Visible(d0, wp)
        bkey == <<c.user, DEFAULT_TOKEN>>
        pkey == <<c.user, option>>
        pl == PoolFor(c.market)
        position == d.position[pkey]
        sold == shares_to_sell(position, quote)
        cost_reduction == IF position.shares > 0
                          THEN (position.cost_basis * sold) \div position.shares ELSE 0
        w1 == [wp EXCEPT
                 !.position = Put(@, pkey, [position EXCEPT
                                 !.shares = @ - sold,
                                 !.cost_basis = Max2(0, @ - cost_reduction)]),
                 !.q = PutAll(@, sell_q(d, st, option, quote, sold)),
                 !.balance = Put(@, bkey, [d.balance[bkey] EXCEPT
                                             !.available_amount = @ + quote.amount])]
    IN  [recompute_option_probs(d0, w1, st) EXCEPT
           !.intents = Append(@, [id |-> NextIntentId(d), user |-> c.user,
                                  market |-> c.market, option |-> option,
                                  side |-> "sell", amount_in |-> quote.amount,
                                  shares_out |-> sold, status |-> "confirmed",
                                  client_nonce |-> c.client_nonce]),
           !.trades = Append(@, [tx_hash |-> OffchainTxHash(NextIntentId(d)),
                                 user |-> c.user, market |-> c.market, option |-> option,
                                 side |-> "sell", amount_in |-> quote.amount,
                                 shares |-> sold, price_bps |-> quote.avg_price_bps,
                                 fee_amount |-> quote.fee_amount]),
           !.pool = Put(@, pl, sell_pool(d.pool[pl], quote))]

\* faulty variant of dust_writes: the cost basis of the cleaned position stays
dust_writes_keeping_cost_basis(wp, pkey, position) ==
    [wp EXCEPT !.position = Put(@, pkey, [position EXCEPT !.shares = 0])]

\* sell_all of a dust position: the position is zeroed, nothing else is touched
dust_writes(wp, pkey, position) ==
    [wp EXCEPT !.position = Put(@, pkey, [position EXCEPT !.shares = 0, !.cost_basis = 0])]

SellResult(option, position, quote) ==
    [NoRes EXCEPT !.code = "OK", !.option = option, !.amount = quote.amount,
                  !.shares = shares_to_sell(position, quote)]

DustResult(option, position) ==
    [NoRes EXCEPT !.code = "OK", !.option = option, !.shares = position.shares,
                  !.dust_cleanup = TRUE]

\* a quoted sell is rejected by a guard, or written and committed
sell_quoted(p, wp, c, st, option, position, quote) ==
    IF sell_checks(c, position, quote) # "OK"
    THEN Raise(p, wp, Err(sell_checks(c, position, quote)))
    ELSE IF ensure_wallet(c) = NoneId
    THEN Raise(p, sell_applied(AsLocked(db, loc[p]), wp, c, st, option, quote),
               Err("WALLET_NOT_FOUND"))
    ELSE Return(p, sell_writes(AsLocked(db, loc[p]), wp, c, st, option, quote),
                SellResult(option, position, quote))

sell_locked(p, wp, c, st, option, position) ==
    IF position.shares <= 0 THEN Raise(p, wp, Err("NO_POSITION"))
    ELSE IF c.sell_all /\ position.shares <= DUST_THRESHOLD
    THEN Return(p, dust_writes(wp, <<c.user, option>>, position), DustResult(option, position))
    ELSE sell_quoted(p, wp, c, st, option, position,
             trade_quote(c, st, option, "sell", c.desired_amount_out,
                         IF c.sell_all THEN position.shares ELSE c.shares))

\* the position row is locked (or created), the trade is quoted, checked and written
execute_sell(p) ==
    /\ Delivered
    /\ pc[p] = "trade_position"
    /\ UNCHANGED call
    /\ call[p].op = "sell"
    /\ LET c == call[p]
           option == FindOption(c.market, c.option_id, c.option_index)
           w1 == lock_position(Visible(db, w[p]), w[p], <<c.user, option>>)
       IN  /\ Free(p, {Row("position", c.user, option)})
           /\ sell_locked(p, w1, c,
                          lock_pool_state(Visible(AsLocked(db, loc[p]), w1), c.market), option,
                          Visible(db, w1).position[<<c.user, option>>])

-----------------------------------------------------------------------------
(* settlement.py                                                           *)

ResolveCalls ==
    { [NoCall EXCEPT !.op = "resolve_market", !.market = "m1", !.option_index = i]
      : i \in {0, 1} }

SettleCalls ==
    { [NoCall EXCEPT !.op = "settle_market", !.market = "m1", !.settlement_tx_id = t]
      : t \in {NoneId, "tx1"} }

ResolveAndSettleCalls ==
    { [NoCall EXCEPT !.op = "resolve_and_settle_market", !.market = "m1", !.option_index = i]
      : i \in {0, 1} }

PartialCalls ==
    { [NoCall EXCEPT !.op = "resolve_and_settle_market_partial", !.market = "m1",
                     !.option_id = o]
      : o \in Options }

\* _generate_settlement_tx_id: a fresh id, here one per request handler
generate_settlement_tx_id(p) == IF p = "p1" THEN "settle:p1" ELSE "settle:p2"

is_no_option(option) ==
    IF OptionRow(option).side # "" THEN OptionRow(option).side = "no"
    ELSE OptionRow(option).option_index = 0

\* _resolve_market_internal up to market.save, the market row being locked
resolve_market_internal(d0, wp, m, option_id, option_index, skip_status_update) ==
    LET d == Visible(d0, wp)
        market == d.market[m]
        winning_option == FindOption(m, option_id, option_index)
    IN  IF market.status = "resolved" /\ market.settled_at
        THEN [code |-> "OK", already_resolved |-> TRUE, w |-> wp,
              resolved_option_index |-> market.resolved_option_index]
        ELSE IF market.status \notin {"active", "closed", "resolved"}
        THEN [code |-> "INVALID_STATUS", already_resolved |-> FALSE, w |-> wp,
              resolved_option_index |-> NoneNum]
        ELSE IF winning_option = NoneId
        THEN [code |-> "OPTION_NOT_FOUND", already_resolved |-> FALSE, w |-> wp,
              resolved_option_index |-> NoneNum]
        ELSE IF ~OptionRow(winning_option).is_active
        THEN [code |-> "OPTION_NOT_ACTIVE", already_resolved |-> FALSE, w |-> wp,
              resolved_option_index |-> NoneNum]
        ELSE [code |-> "OK", already_resolved |-> FALSE,
              w |-> [wp EXCEPT !.market = Put(@, m,
                       [market EXCEPT
                          !.resolved_at = TRUE,
                          !.resolved_option_index = OptionRow(winning_option).option_index,
                          !.status = IF skip_status_update THEN @ ELSE "resolved"])],
              resolved_option_index |-> OptionRow(winning_option).option_index]

\* _set_resolved_option_stats: the winner shows 10000, every other option 0
set_resolved_option_stats(wp, m, winning_option) ==
    [wp EXCEPT !.prob_bps =
        PutAll(@, [o \in {x \in Options : OptionRow(x).market = m} |->
                     IF o = winning_option THEN BPS ELSE 0])]

\* Event.objects.filter(pk=market.event_id).update(status="resolved", ...)
event_resolved(d0, wp, m) ==
    IF MarketEvent(m) = NoneId THEN wp
    ELSE [wp EXCEPT !.event = Put(@, MarketEvent(m),
            [status |-> "resolved", resolved_at |-> TRUE, resolved_market_id |-> m])]

SettlementOf(d, m) == {r \in d.settlements : r.market = m}

\* faulty variant of SettledResult: the stored amounts are not returned
SettledResultWithoutPayload(r, already) ==
    [NoRes EXCEPT !.code = "OK", !.already_settled = already,
                  !.settlement_tx_id = r.settlement_tx_id]

\* the payload built from a MarketSettlement row (lines 368-378)
SettledResult(r, already) ==
    [NoRes EXCEPT !.code = "OK", !.already_settled = already,
                  !.settlement_tx_id = r.settlement_tx_id, !.total_payout = r.total_payout,
                  !.pool_cash_used = r.pool_cash_used, !.collateral_used = r.collateral_used]

\* faulty variant of settle_precheck: an existing settlement does not stop the call
settle_precheck_without_idempotency(d, m) ==
    LET market == d.market[m] IN
    IF market.resolved_option_index = NoneNum THEN "NO_RESOLVED_OPTION"
    ELSE IF FindOption(m, NoneId, market.resolved_option_index) = NoneId THEN "OPTION_NOT_FOUND"
    ELSE IF PoolFor(m) = NoneId THEN "POOL_NOT_FOUND"
    ELSE "OK"

\* _settle_market_internal from the market lock to the pool lock (lines 366-395)
settle_precheck(d, m) ==
    LET market == d.market[m] IN
    IF market.settled_at /\ SettlementOf(d, m) # {} THEN "ALREADY_SETTLED"
    ELSE IF market.resolved_option_index = NoneNum THEN "NO_RESOLVED_OPTION"
    ELSE IF FindOption(m, NoneId, market.resolved_option_index) = NoneId THEN "OPTION_NOT_FOUND"
    ELSE IF PoolFor(m) = NoneId THEN "POOL_NOT_FOUND"
    ELSE "OK"

\* the unlocked reads and checks of resolve_and_settle_market_partial (lines 635-679)
partial_checks(c) ==
    LET e == MarketEvent(c.market)
        winning_option == FindOption(c.market, c.option_id, c.option_index)
    IN  IF c.option_id = NoneId /\ c.option_index = NoneNum THEN "INVALID_PARAM"
        ELSE IF e = NoneId THEN "EVENT_NOT_FOUND"
        ELSE IF GroupRule(e) \notin {"exclusive", "independent"} THEN "INVALID_GROUP_RULE"
        ELSE IF winning_option = NoneId THEN "OPTION_NOT_FOUND"
        ELSE IF ~OptionRow(winning_option).is_active THEN "OPTION_NOT_ACTIVE"
        ELSE IF GroupRule(e) = "exclusive" /\ ~is_no_option(winning_option)
        THEN "INVALID_PARTIAL_OPTION"
        ELSE "OK"

\* resolve_market: the market row is locked and marked resolved
resolve_market(p) ==
    /\ Delivered
    /\ pc[p] = "idle"
    /\ \E c \in ResolveCalls :
        LET r == resolve_market_internal(db, EmptyW, c.market, c.option_id, c.option_index, FALSE)
        IN  /\ Free(p, {Row("market", c.market, "")})
            /\ call' = [call EXCEPT ![p] = c]
            /\ IF r.code # "OK" THEN Raise(p, r.w, Err(r.code))
               ELSE IF r.already_resolved
               THEN Return(p, r.w, [NoRes EXCEPT !.code = "OK", !.already_resolved = TRUE])
               ELSE Goto(p, "resolve_event", {Row("market", c.market, "")}, r.w)

\* resolve_market: the event row is updated, the option stats are set, commit
resolve_event(p) ==
    /\ Delivered
    /\ pc[p] = "resolve_event"
    /\ UNCHANGED call
    /\ LET c == call[p]
           e == MarketEvent(c.market)
           rs == IF e = NoneId THEN {} ELSE {Row("event", e, "")}
           winning_option == FindOption(c.market, c.option_id, c.option_index)
       IN  /\ Free(p, rs)
           /\ Return(p, set_resolved_option_stats(event_resolved(db, w[p], c.market),
                                                   c.market, winning_option),
                     [NoRes EXCEPT !.code = "OK"])

\* the settlement_tx_id a call settles under
TxId(p, c) ==
    IF c.settlement_tx_id = NoneId THEN generate_settlement_tx_id(p) ELSE c.settlement_tx_id

update_market_status(c) == c.op # "settle_market"
update_event_status(c) == c.op = "resolve_and_settle_market"
close_pool(c) ==
    c.op # "resolve_and_settle_market_partial" \/ GroupRule(MarketEvent(c.market)) # "exclusive"

\* _settle_market_internal is entered with the market row locked
settle_enter(p, c, wp, already_resolved) ==
    LET d == Visible(db, wp)
        pre == settle_precheck(d, c.market)
        existing == CHOOSE r \in SettlementOf(d, c.market) : TRUE
        rs == {Row("market", c.market, "")}
    IN  IF pre = "ALREADY_SETTLED"
        THEN IF c.op = "resolve_and_settle_market_partial"
             THEN GotoLoc(p, "settle_event", rs, wp,
                          [NoLoc EXCEPT !.already_resolved = already_resolved,
                                        !.already_settled = TRUE,
                                        !.settlement_tx_id = existing.settlement_tx_id,
                                        !.total_payout = existing.total_payout,
                                        !.pool_cash_used = existing.pool_cash_used,
                                        !.collateral_used = existing.collateral_used])
             ELSE Return(p, wp, [SettledResult(existing, TRUE) EXCEPT
                                   !.already_resolved = already_resolved])
        ELSE IF pre # "OK" THEN Raise(p, wp, Err(pre))
        ELSE GotoLoc(p, "settle_pool", rs, wp,
                     [NoLoc EXCEPT !.already_resolved = already_resolved,
                                   !.settlement_tx_id = TxId(p, c)])

settle_status_check_unresolved(market) == "OK"

\* settle_market's status check on the locked market row
settle_status_check(market) ==
    IF market.status # "resolved" THEN "NOT_RESOLVED" ELSE "OK"

\* settle_market: the market row is locked; it must be resolved
settle_market(p) ==
    /\ Delivered
    /\ pc[p] = "idle"
    /\ \E c \in SettleCalls :
        /\ Free(p, {Row("market", c.market, "")})
        /\ call' = [call EXCEPT ![p] = c]
        /\ IF settle_status_check(db.market[c.market]) # "OK"
           THEN Raise(p, EmptyW, Err(settle_status_check(db.market[c.market])))
           ELSE settle_enter(p, c, EmptyW, FALSE)

\* resolve_and_settle_market: the market row is locked and the winner recorded
resolve_and_settle_market(p) ==
    /\ Delivered
    /\ pc[p] = "idle"
    /\ \E c \in ResolveAndSettleCalls :
        LET r == resolve_market_internal(db, EmptyW, c.market, c.option_id, c.option_index, TRUE)
        IN  /\ Free(p, {Row("market", c.market, "")})
            /\ call' = [call EXCEPT ![p] = c]
            /\ IF c.option_id = NoneId /\ c.option_index = NoneNum
               THEN Raise(p, EmptyW, Err("INVALID_PARAM"))
               ELSE IF r.code # "OK" THEN Raise(p, r.w, Err(r.code))
               ELSE settle_enter(p, c, r.w, r.already_resolved)

\* resolve_and_settle_market_partial: the same after its unlocked checks
resolve_and_settle_market_partial(p) ==
    /\ Delivered
    /\ pc[p] = "idle"
    /\ \E c \in PartialCalls :
        LET winning_option == FindOption(c.market, c.option_id, c.option_index)
            r == resolve_market_internal(db, EmptyW, c.market, winning_option, NoneNum, TRUE)
        IN  /\ call' = [call EXCEPT ![p] = c]
            /\ IF partial_checks(c) # "OK" THEN Raise(p, EmptyW, Err(partial_checks(c)))
               ELSE /\ Free(p, {Row("market", c.market, "")})
                    /\ IF r.code # "OK" THEN Raise(p, r.w, Err(r.code))
                       ELSE IF r.already_resolved /\ r.resolved_option_index
                                                     # OptionRow(winning_option).option_index
                       THEN Raise(p, r.w, Err("ALREADY_RESOLVED"))
                       ELSE settle_enter(p, c, r.w, r.already_resolved)

\* faulty variant of funding: collateral pays first, pool cash covers what remains
funding_collateral_first(pool_cash, collateral_amount, total_payout) ==
    LET collateral_used == IF total_payout > 0 THEN Min2(collateral_amount, total_payout) ELSE 0
        remaining == total_payout - collateral_used
    IN  [ok |-> ~(total_payout > 0 /\ remaining > 0 /\ remaining > pool_cash),
         pool_cash_used |-> IF total_payout > 0 /\ remaining > 0 THEN remaining ELSE 0,
         collateral_used |-> collateral_used,
         remaining |-> remaining]

\* pool cash pays first, collateral covers what remains (lines 416-434)
funding(pool_cash, collateral_amount, total_payout) ==
    LET pool_cash_used == IF total_payout > 0 THEN Min2(pool_cash, total_payout) ELSE 0
        remaining == total_payout - pool_cash_used
    IN  [ok |-> ~(total_payout > 0 /\ remaining > 0 /\ remaining > collateral_amount),
         pool_cash_used |-> pool_cash_used,
         collateral_used |-> IF total_payout > 0 /\ remaining > 0 THEN remaining ELSE 0,
         remaining |-> remaining]

\* faulty variant of InsufficientFunds: "need" is what is missing after collateral too
InsufficientFundsShortfall(remaining, collateral_amount, pool_cash, total_payout) ==
    [NoRes EXCEPT !.code = "INSUFFICIENT_FUNDS", !.need = remaining - collateral_amount,
                  !.available = collateral_amount, !.pool_cash = pool_cash,
                  !.total_payout = total_payout]

\* the error INSUFFICIENT_FUNDS carries: "need {remaining} more but only
\* {collateral_amount} collateral available. pool_cash=..., total_payout=..."
InsufficientFunds(remaining, collateral_amount, pool_cash, total_payout) ==
    [NoRes EXCEPT !.code = "INSUFFICIENT_FUNDS", !.need = remaining,
                  !.available = collateral_amount, !.pool_cash = pool_cash,
                  !.total_payout = total_payout]

WinningOption(d, m) == FindOption(m, NoneId, d.market[m].resolved_option_index)

\* Position.objects.filter(market=market, option=winning_option, shares__gt=0)
WinningUsers(d, m) ==
    {u \in Users : /\ d.position[<<u, WinningOption(d, m)>>].exists
                   /\ d.position[<<u, WinningOption(d, m)>>].shares > 0}

RECURSIVE SumShares(_, _, _)
SumShares(d, o, us) ==
    IF us = {} THEN 0
    ELSE LET u == CHOOSE x \in us : TRUE
         IN  d.position[<<u, o>>].shares + SumShares(d, o, us \ {u})

\* the orders in which a query without order_by may return the rows of us
Orders(us) ==
    {s \in [1..Cardinality(us) -> us] : \A i, j \in 1..Cardinality(us) : i # j => s[i] # s[j]}

\* the pool row is locked; the payout is summed from an unlocked read and funded
settle_lock_pool(p) ==
    /\ Delivered
    /\ pc[p] = "settle_pool"
    /\ UNCHANGED call
    /\ LET c == call[p]
           pl == PoolFor(c.market)
           d == Visible(db, w[p])
           pool == d.pool[pl]
           winners == WinningUsers(d, c.market)
           total_payout == SumShares(d, WinningOption(d, c.market), winners)
           f == funding(pool.pool_cash, pool.collateral_amount, total_payout)
       IN  /\ Free(p, {Row("pool", pl, "")})
           /\ IF ~f.ok
              THEN Raise(p, w[p], InsufficientFunds(f.remaining, pool.collateral_amount,
                                                    pool.pool_cash, total_payout))
              ELSE \E user_ids \in Orders(winners) :
                     GotoLoc(p, IF winners = {} THEN "settle_positions" ELSE "settle_balance",
                             {Row("pool", pl, "")}, w[p],
                             [loc[p] EXCEPT !.total_payout = total_payout,
                                            !.pool_cash_used = f.pool_cash_used,
                                            !.collateral_used = f.collateral_used,
                                            !.user_ids = user_ids])

\* the next winner's balance row is locked, or created when missing
settle_lock_balance(p) ==
    /\ Delivered
    /\ pc[p] = "settle_balance"
    /\ UNCHANGED call
    /\ LET c == call[p]
           token == PoolRowStatic(PoolFor(c.market)).collateral_token
           user_id == Head(loc[p].user_ids)
       IN  /\ Free(p, {Row("balance", user_id, token)})
           /\ GotoLoc(p, IF Len(loc[p].user_ids) = 1 THEN "settle_positions" ELSE "settle_balance",
                      {Row("balance", user_id, token)},
                      lock_balance(Visible(db, w[p]), w[p], <<user_id, token>>),
                      [loc[p] EXCEPT !.user_ids = Tail(@)])

\* faulty variant of payout_amount: a winner is paid back what they paid
payout_cost_basis(position) == position.cost_basis

\* each winning share pays one unit of the collateral token
payout_amount(position) == position.shares

\* the F() credits of the winners found under the position locks (lines 468-486)
credit_winners(d0, wp, m, token) ==
    LET d == Visible(d0, wp)
        o == WinningOption(d, m)
        credited == {u \in WinningUsers(d, m) :
                        payout_amount(d.position[<<u, o>>]) > 0 /\ d.balance[<<u, token>>].exists}
    IN  [wp EXCEPT
           !.balance = PutAll(@, [k \in {<<u, token>> : u \in credited} |->
                                    [d.balance[k] EXCEPT !.available_amount =
                                        @ + payout_amount(d.position[<<k[1], o>>])]]),
           !.paid = PutAll(@, [k \in {<<u, o>> : u \in credited} |-> 1])]

\* pool.save after the payout (lines 488-497)
pool_after_settlement(pool, l, close) ==
    [pool EXCEPT !.pool_cash = @ - l.pool_cash_used,
                 !.collateral_amount = @ - l.collateral_used,
                 !.status = IF close THEN "closed" ELSE @]

\* faulty variant of market_after_settlement: settled_at is not set
market_after_settlement_unmarked(market, l, update_status) ==
    [market EXCEPT !.settlement_tx_id = l.settlement_tx_id,
                   !.status = IF update_status THEN "resolved" ELSE @]

\* market.save after the settlement row exists (lines 524-546)
market_after_settlement(market, l, update_status) ==
    [market EXCEPT !.settled_at = TRUE,
                   !.settlement_tx_id = l.settlement_tx_id,
                   !.status = IF update_status THEN "resolved" ELSE @]

SettlementRow(d, m, l) ==
    [market |-> m, resolved_option |-> WinningOption(d, m), total_payout |-> l.total_payout,
     pool_cash_used |-> l.pool_cash_used, collateral_used |-> l.collateral_used,
     settlement_tx_id |-> l.settlement_tx_id]

\* the writes of _settle_market_internal from the pool update on
settle_writes(d0, wp, c, l) ==
    LET d == Visible(d0, wp)
        m == c.market
        pl == PoolFor(m)
        w1 == [wp EXCEPT
                 !.pool = Put(@, pl, pool_after_settlement(d.pool[pl], l, close_pool(c))),
                 !.settlements = @ \cup {SettlementRow(d, m, l)},
                 !.market = Put(@, m, market_after_settlement(d.market[m], l,
                                                             update_market_status(c)))]
    IN  IF update_market_status(c) THEN set_resolved_option_stats(w1, m, WinningOption(d, m))
        ELSE w1

SettledFromLoc(l) ==
    [NoRes EXCEPT !.code = "OK", !.already_resolved = l.already_resolved,
                  !.already_settled = l.already_settled,
                  !.settlement_tx_id = l.settlement_tx_id, !.total_payout = l.total_payout,
                  !.pool_cash_used = l.pool_cash_used, !.collateral_used = l.collateral_used]

\* what is left of the call once _settle_market_internal has returned
settle_continue(p, c, rs, wp, l) ==
    IF \/ c.op = "resolve_and_settle_market_partial"
       \/ (update_event_status(c) /\ ~l.already_settled /\ MarketEvent(c.market) # NoneId)
    THEN GotoLoc(p, "settle_event", rs, wp, l)
    ELSE Return(p, wp, SettledFromLoc(l))

\* the winning positions are locked and paid, pool, settlement and market written
settle_positions(p) ==
    /\ Delivered
    /\ pc[p] = "settle_positions"
    /\ UNCHANGED call
    /\ LET c == call[p]
           m == c.market
           token == PoolRowStatic(PoolFor(m)).collateral_token
           d == Visible(db, w[p])
           rs == {Row("position", u, WinningOption(d, m)) : u \in WinningUsers(d, m)}
           w1 == credit_winners(db, w[p], m, token)
           existing == CHOOSE r \in SettlementOf(d, m) : TRUE
       IN  /\ Free(p, rs)
           /\ IF SettlementOf(d, m) = {}
              THEN settle_continue(p, c, rs, settle_writes(db, w1, c, loc[p]), loc[p])
              ELSE \* IntegrityError on MarketSettlement.objects.create: the handler
                   \* answers with the existing row, unless the failed INSERT has
                   \* already doomed the transaction
                   \/ Raise(p, w1, Err("TRANSACTION_ABORTED"))
                   \/ settle_continue(p, c, rs,
                          [w1 EXCEPT !.pool = Put(@, PoolFor(m),
                              pool_after_settlement(d.pool[PoolFor(m)], loc[p], close_pool(c)))],
                          [loc[p] EXCEPT !.already_settled = TRUE,
                                         !.settlement_tx_id = existing.settlement_tx_id,
                                         !.total_payout = existing.total_payout,
                                         !.pool_cash_used = existing.pool_cash_used,
                                         !.collateral_used = existing.collateral_used])

\* option states of the pool whose market is neither resolved nor canceled
refresh_exclusive_pool_probs(d0, wp, m) ==
    LET d == Visible(d0, wp)
        Open(o) == d.market[OptionRow(o).market].status \notin {"resolved", "canceled"}
        ids == SelectSeq(PoolStates(PoolFor(m)), Open)
        st == [lock_pool_state(d, m) EXCEPT
                 !.option_ids = ids,
                 !.option_indexes = [i \in 1..Len(ids) |-> OptionRow(ids[i]).option_index],
                 !.q = [i \in 1..Len(ids) |-> d.q[ids[i]]],
                 !.no_to_yes = build_no_to_yes_mapping(ids),
                 !.is_exclusive = TRUE]
    IN  IF PoolFor(m) = NoneId \/ PoolRowStatic(PoolFor(m)).b <= 0 \/ Len(ids) = 0 THEN wp
        ELSE recompute_option_probs(d0, wp, st)

\* _sync_event_status_for_partial: resolved exactly when no market is left open
sync_event_status_for_partial(d0, wp, e) ==
    LET d == Visible(d0, wp)
        event == d.event[e]
        unresolved_exists == \E m \in Markets :
            MarketEvent(m) = e /\ d.market[m].status \notin {"resolved", "canceled"}
        yes_resolved == {m \in Markets :
            /\ MarketEvent(m) = e /\ d.market[m].status = "resolved"
            /\ WinningOption(d, m) # NoneId
            /\ (OptionRow(WinningOption(d, m)).side = "yes"
                \/ d.market[m].resolved_option_index = 1)}
    IN  IF unresolved_exists
        THEN IF event.status = "resolved"
             THEN [wp EXCEPT !.event = Put(@, e, [status |-> "active", resolved_at |-> FALSE,
                                                  resolved_market_id |-> NoneId])]
             ELSE wp
        ELSE IF event.status # "resolved"
        THEN [wp EXCEPT !.event = Put(@, e,
                [status |-> "resolved", resolved_at |-> TRUE,
                 resolved_market_id |->
                    IF GroupRule(e) = "exclusive" /\ yes_resolved # {}
                    THEN CHOOSE m \in yes_resolved : TRUE ELSE NoneId])]
        ELSE wp

\* the event row is locked: updated by resolve_and_settle_market, synchronised by
\* resolve_and_settle_market_partial; then the transaction commits
settle_event(p) ==
    /\ Delivered
    /\ pc[p] = "settle_event"
    /\ UNCHANGED call
    /\ LET c == call[p]
           e == MarketEvent(c.market)
           exclusive == GroupRule(e) = "exclusive"
           rs == {Row("event", e, "")}
                 \cup IF c.op = "resolve_and_settle_market_partial" /\ exclusive
                         /\ PoolOfEvent(e) # NoneId
                      THEN {Row("pool", PoolOfEvent(e), "")} ELSE {}
           w1 == IF exclusive THEN refresh_exclusive_pool_probs(db, w[p], c.market) ELSE w[p]
       IN  /\ Free(p, rs)
           /\ IF c.op = "resolve_and_settle_market_partial"
              THEN Return(p, sync_event_status_for_partial(db, w1, e), SettledFromLoc(loc[p]))
              ELSE Return(p, event_resolved(db, w[p], c.market), SettledFromLoc(loc[p]))

\* the caller has the result
finish(p) ==
    /\ pc[p] = "done"
    /\ pc' = [pc EXCEPT ![p] = "idle"]
    /\ call' = [call EXCEPT ![p] = NoCall]
    /\ res' = [res EXCEPT ![p] = NoRes]
    /\ UNCHANGED <<db, w, held, loc, paid, clock, quote_args, quoted, amm_payload, amm_pools, funded, ens, b_calls, grp, cch, stl,
                   dep, fin>>

\* time passes; the times after the last deadline are not told apart
tick ==
    /\ Delivered
    /\ \E m \in Markets : clock < TradingDeadline(m)
    /\ clock' = clock + 1
    /\ UNCHANGED <<db, w, held, pc, call, loc, res, paid, quote_args, quoted, amm_payload, amm_pools, funded, ens, b_calls, grp, cch, stl,
                   dep, fin>>

Next ==
    \/ tick
    \/ \E p \in Procs :
        \/ trade_lock_market(p)
        \/ trade_lock_event(p)
        \/ trade_lock_pool(p)
        \/ trade_lock_balance(p)
        \/ execute_buy(p)
        \/ execute_sell(p)
        \/ resolve_market(p)
        \/ resolve_event(p)
        \/ settle_market(p)
        \/ resolve_and_settle_market(p)
        \/ resolve_and_settle_market_partial(p)
        \/ settle_lock_pool(p)
        \/ settle_lock_balance(p)
        \/ settle_positions(p)
        \/ settle_event(p)
        \/ finish(p)

Spec == Init /\ [][Next]_vars

\* trades of u1 that name no wallet, u1's own wallet or the wallet of u2
WalletCalls ==
    { [NoCall EXCEPT !.op = "buy", !.user = "u1", !.market = "m1", !.option_id = "o1",
                     !.amount_in = a, !.wallet_id = wallet_id]
      : a \in {FX, FX \div 20}, wallet_id \in {NoneId, "w1", "w2"} }
    \cup
    { [NoCall EXCEPT !.op = "sell", !.user = "u1", !.market = "m1", !.option_id = "o1",
                     !.sell_all = TRUE, !.wallet_id = wallet_id]
      : wallet_id \in {NoneId, "w1", "w2"} }

wallet_trade_lock_market(p) == trade_begin(p, WalletCalls)

NextWallet ==
    \E p \in Procs :
        \/ wallet_trade_lock_market(p)
        \/ trade_lock_event(p)
        \/ trade_lock_pool(p)
        \/ trade_lock_balance(p)
        \/ execute_buy(p)
        \/ execute_sell(p)
        \/ finish(p)

SpecWallet == Init /\ [][NextWallet]_vars

-----------------------------------------------------------------------------
(* views/redemption.py, views/stripe_payments.py: deposits of u1, next to   *)
(* the buys of u1                                                           *)

DepositUser == "u1"
DepositKey == <<DepositUser, DEFAULT_TOKEN>>

DepositBuyCalls ==
    { [NoCall EXCEPT !.op = "buy", !.user = DepositUser, !.market = "m1",
                     !.option_id = "o1", !.amount_in = FX] }

deposit_trade_lock_market(p) == trade_begin(p, DepositBuyCalls)

\* a deposit of p has read the balance row and is about to save it
DepositRead(p, source) ==
    [dep EXCEPT !.tx[p] = [source |-> source,
                           available |-> db.balance[DepositKey].available_amount]]

\* the deposit's transaction commits the balance it computed from the row it read:
\* balance.available_amount += amount; balance.save()
DepositSaved(amount, available) ==
    [db EXCEPT !.balance[DepositKey].available_amount = available + amount]

\* redeem_code up to get_or_create: the code row is locked and checked, the balance
\* row is read without a lock (redemption.py 135-153)
redeem_code(p) ==
    /\ Delivered
    /\ pc[p] = "idle"
    /\ \E code \in Codes :
         /\ Free(p, {Row("code", code, "")})
         /\ call' = [call EXCEPT ![p] = [NoCall EXCEPT !.op = "redeem_code",
                                                      !.user = DepositUser]]
         /\ IF dep.codes[code] # "active"
            THEN /\ pc' = [pc EXCEPT ![p] = "done"]
                 /\ res' = [res EXCEPT ![p] = Err("CODE_USED")]
                 /\ UNCHANGED <<held, dep>>
            ELSE /\ pc' = [pc EXCEPT ![p] = "redeem_save"]
                 /\ held' = [held EXCEPT ![p] = {Row("code", code, "")}]
                 /\ dep' = DepositRead(p, code)
                 /\ UNCHANGED res
    /\ UNCHANGED <<db, w, loc, paid, clock, quote_args, quoted, amm_payload, amm_pools,
                   funded, ens, b_calls, grp, cch, stl, fin>>

\* balance.save() waits for the row lock, writes the balance and the used code, and
\* the transaction commits (redemption.py 154-158)
redeem_save(p) ==
    /\ Delivered
    /\ pc[p] = "redeem_save"
    /\ Free(p, {Row("balance", DepositUser, DEFAULT_TOKEN)})
    /\ db' = DepositSaved(CodeAmount(dep.tx[p].source), dep.tx[p].available)
    /\ dep' = [dep EXCEPT !.codes[dep.tx[p].source] = "used", !.tx[p] = NoDeposits.tx[p]]
    /\ held' = [held EXCEPT ![p] = {}]
    /\ pc' = [pc EXCEPT ![p] = "done"]
    /\ res' = [res EXCEPT ![p] = [NoRes EXCEPT !.code = "OK",
                                               !.amount = CodeAmount(dep.tx[p].source)]]
    /\ UNCHANGED <<w, call, loc, paid, clock, quote_args, quoted, amm_payload, amm_pools,
                   funded, ens, b_calls, grp, cch, stl, fin>>

\* _apply_stripe_deposit up to get_or_create: the user row is locked, the session is
\* looked up among the recorded deposits, the balance row is read without a lock
\* (stripe_payments.py 191-206)
apply_stripe_deposit(p) ==
    /\ Delivered
    /\ pc[p] = "idle"
    /\ \E session \in Sessions :
         /\ Free(p, {Row("user", DepositUser, "")})
         /\ call' = [call EXCEPT ![p] = [NoCall EXCEPT !.op = "stripe_deposit",
                                                      !.user = DepositUser]]
         /\ IF session \in dep.chain_events
            THEN /\ pc' = [pc EXCEPT ![p] = "done"]
                 /\ res' = [res EXCEPT ![p] = Err("ALREADY_CREDITED")]
                 /\ UNCHANGED <<held, dep>>
            ELSE /\ pc' = [pc EXCEPT ![p] = "stripe_save"]
                 /\ held' = [held EXCEPT ![p] = {Row("user", DepositUser, "")}]
                 /\ dep' = DepositRead(p, session)
                 /\ UNCHANGED res
    /\ UNCHANGED <<db, w, loc, paid, clock, quote_args, quoted, amm_payload, amm_pools,
                   funded, ens, b_calls, grp, cch, stl, fin>>

\* balance.save() waits for the row lock, the ChainEvent is recorded and the
\* transaction commits (stripe_payments.py 207-224)
stripe_save(p) ==
    /\ Delivered
    /\ pc[p] = "stripe_save"
    /\ Free(p, {Row("balance", DepositUser, DEFAULT_TOKEN)})
    /\ db' = DepositSaved(SessionAmount(dep.tx[p].source), dep.tx[p].available)
    /\ dep' = [dep EXCEPT !.chain_events = @ \cup {dep.tx[p].source},
                          !.tx[p] = NoDeposits.tx[p]]
    /\ held' = [held EXCEPT ![p] = {}]
    /\ pc' = [pc EXCEPT ![p] = "done"]
    /\ res' = [res EXCEPT ![p] = [NoRes EXCEPT !.code = "OK",
                                               !.amount = SessionAmount(dep.tx[p].source)]]
    /\ UNCHANGED <<w, call, loc, paid, clock, quote_args, quoted, amm_payload, amm_pools,
                   funded, ens, b_calls, grp, cch, stl, fin>>

NextDeposit ==
    \E p \in Procs :
        \/ redeem_code(p)
        \/ redeem_save(p)
        \/ apply_stripe_deposit(p)
        \/ stripe_save(p)
        \/ deposit_trade_lock_market(p)
        \/ trade_lock_event(p)
        \/ trade_lock_pool(p)
        \/ trade_lock_balance(p)
        \/ execute_buy(p)
        \/ finish(p)

SpecDeposit == Init /\ [][NextDeposit]_vars

-----------------------------------------------------------------------------
(* quote_core.py as a service: quotes asked for pool states of every shape   *)

\* the q vectors of pools of two and of three outcomes
QuoteQs ==
    LET qs == {0, FX, 3 * FX}
    IN  {<<q1, q2>> : q1 \in qs, q2 \in qs}
        \cup {<<q1, q2, q3>> : q1 \in qs, q2 \in qs, q3 \in qs}

\* pool states; an exclusive pool quotes the No side as well
QuoteStates ==
    { [b |-> b, fee_bps |-> f, option_ids |-> SubSeq(<<"o0", "o1", "o2">>, 1, Len(q)),
       option_indexes |-> [i \in 1..Len(q) |-> i - 1],
       q |-> q, no_to_yes |-> <<>>, is_exclusive |-> x]
      : b \in {FX, 2 * FX}, f \in {0, 200, 1000}, q \in QuoteQs, x \in BOOLEAN }

\* amounts are multiples of MONEY_QUANT; one, both or none of amount_in and shares
QuoteSizes ==
    { <<MONEY_QUANT, NoneNum>>, <<FX, NoneNum>>, <<5 * FX, NoneNum>>,
      <<NoneNum, FX>>, <<NoneNum, 2 * FX>>, <<NoneNum, NoneNum>>, <<FX, FX>> }

QuoteInputs ==
    { [NoQuoteArgs EXCEPT !.st = st, !.option_index = i, !.side = side,
                          !.amount_in = sz[1], !.shares = sz[2], !.is_no_side = n]
      : st \in QuoteStates, i \in {0, 1}, side \in {"buy", "sell"}, sz \in QuoteSizes,
        n \in BOOLEAN }

InitQuote ==
    /\ Started
    /\ amm_payload = NoAmmPayload
    /\ amm_pools = NoAmmPools
    /\ funded = NoFunded
    /\ ens = NoEnsure
    /\ b_calls = NoBCalls
    /\ grp = NoGroup
    /\ cch = NoCache
    /\ stl = NoSettlements
    /\ quote_args \in {a \in QuoteInputs : a.is_no_side => a.st.is_exclusive}
    /\ quoted = QuoteError

\* quote_from_state answers the request
get_quote ==
    /\ ~quote_args.answered
    /\ quote_args' = [quote_args EXCEPT !.answered = TRUE]
    /\ quoted' = quote_from_state(quote_args.st, NoneId, quote_args.option_index,
                                  quote_args.side, quote_args.amount_in, quote_args.shares,
                                  quote_args.is_no_side)
    /\ UNCHANGED <<db, w, held, pc, call, loc, res, paid, clock, amm_payload, amm_pools, funded, ens, b_calls, grp, cch, stl,
                   dep, fin>>

NextQuote == get_quote

SpecQuote == InitQuote /\ [][NextQuote]_vars

-----------------------------------------------------------------------------
(* Pool creation: normalize_amm_params, ensure_pool_initialized and the    *)
(* create_event view                                                       *)

DEFAULT_AMM_B == 10000 * FX
DEFAULT_AMM_FEE_BPS == 0

\* dict.get(key): None for a key the dict does not have
Get(dict, key) == IF key \in DOMAIN dict THEN dict[key] ELSE NoneNum

\* merged.update(defaults); merged.update(raw)
Merged(raw, defaults) ==
    [k \in DOMAIN raw \cup DOMAIN defaults |->
        IF k \in DOMAIN raw /\ (raw[k] # NoneNum \/ k \notin DOMAIN defaults) THEN raw[k]
        ELSE defaults[k]]

\* a or b or ...: a falsy value (None, 0) is passed over
Truthy(v) == IF v = 0 THEN NoneNum ELSE v

AmmSetupError == [err |-> TRUE, b |-> 0, fee_bps |-> 0, collateral_amount |-> 0]

\* the value compute_b_from_funding returns, or raised for its AmmSetupError
BResult(raised, b) == [raised |-> raised, b |-> b]

\* b = F / ln(N), quantized to the precision of the amounts
compute_b_from_funding(funding_amount, num_outcomes) ==
    IF funding_amount <= 0 THEN BResult(TRUE, 0)
    ELSE IF num_outcomes < 2 THEN BResult(TRUE, 0)
    ELSE BResult(FALSE, DivFx(funding_amount, LnFx(num_outcomes * FX)))

\* the legacy path: explicit b or the default
LegacyB(merged) == IF Get(merged, "b") = NoneNum THEN DEFAULT_AMM_B ELSE Get(merged, "b")

NormalizedFee(merged) ==
    IF Get(merged, "fee_bps") = NoneNum THEN DEFAULT_AMM_FEE_BPS ELSE Get(merged, "fee_bps")

\* the dict normalize_amm_params returns: it has collateral_amount and no
\* initial_funding_amount
Normalized(b, fee_bps, collateral_amount) ==
    IF fee_bps < 0 \/ fee_bps > BPS THEN AmmSetupError
    ELSE [err |-> FALSE, b |-> b, fee_bps |-> fee_bps, collateral_amount |-> collateral_amount]

\* an explicit or default b must be positive
NormalizedB(b, fee_bps, collateral_amount) ==
    IF b <= 0 THEN AmmSetupError ELSE Normalized(b, fee_bps, collateral_amount)

NormalizeMerged(merged, initial_funding_raw, num_outcomes) ==
    IF initial_funding_raw # NoneNum
    THEN IF initial_funding_raw <= 0 THEN AmmSetupError
         ELSE IF num_outcomes # NoneNum
         THEN IF compute_b_from_funding(initial_funding_raw, num_outcomes).raised
              THEN AmmSetupError
              ELSE Normalized(compute_b_from_funding(initial_funding_raw, num_outcomes).b,
                              NormalizedFee(merged), initial_funding_raw)
         ELSE NormalizedB(LegacyB(merged), NormalizedFee(merged), initial_funding_raw)
    ELSE NormalizedB(LegacyB(merged), NormalizedFee(merged), 0)

\* the keys of the returned dict (model and collateral_token left out); err stands
\* for the AmmSetupError raised instead
AsDict(params) == [k \in {"b", "fee_bps", "collateral_amount"} |-> params[k]]

normalize_amm_params(raw, defaults, num_outcomes) ==
    NormalizeMerged(Merged(raw, defaults),
                    Truthy(Get(Merged(raw, defaults), "initial_funding_amount")),
                    num_outcomes)

\* the pool row AmmPool.objects.create stores; initial_funding records the
\* initial_funding_amount of the request that created it
CreatedPool(params, n, initial_funding) ==
    [exists |-> TRUE, b |-> params.b, fee_bps |-> params.fee_bps,
     collateral_amount |-> params.collateral_amount, num_outcomes |-> n,
     initial_funding |-> initial_funding]

\* ensure_pool_initialized for the pool k with n option ids: an existing pool keeps
\* its parameters
EnsurePool(pools, k, params, n, initial_funding) ==
    IF pools[k].exists THEN pools
    ELSE [pools EXCEPT ![k] = CreatedPool(params, n, initial_funding)]

NumOutcomes(n) == IF n > 0 THEN n ELSE 2

\* the amm_params of the k-th market as create_event normalizes them (no num_outcomes)
AmmParamsList(payload) ==
    [i \in 1..Len(payload.markets) |->
        normalize_amm_params(payload.markets[i], payload.amm, NoneNum)]

\* the initial_funding_amount the k-th market's parameters carry
FundingOf(payload, i) ==
    Truthy(Get(Merged(payload.markets[i], payload.amm), "initial_funding_amount"))

MarketKey(i) == IF i = 1 THEN "m1" ELSE "m2"

\* options of a binary market
BinaryOptions == 2

RECURSIVE MarketPools(_, _, _, _)
\* one market-level pool per created market, in order; the first failure aborts
MarketPools(pools, list, payload, i) ==
    IF i > Len(list) THEN [err |-> FALSE, pools |-> pools]
    ELSE IF normalize_amm_params(AsDict(list[i]), <<>>, NumOutcomes(BinaryOptions)).err
    THEN [err |-> TRUE, pools |-> pools]
    ELSE MarketPools(EnsurePool(pools, MarketKey(i),
                                normalize_amm_params(AsDict(list[i]), <<>>, NumOutcomes(BinaryOptions)),
                                NumOutcomes(BinaryOptions), FundingOf(payload, i)),
                     list, payload, i + 1)

\* exclusive events need the same model, b, fee_bps and collateral_token in every market
IdenticalParams(list) ==
    \A i \in 1..Len(list) : list[i].b = list[1].b /\ list[i].fee_bps = list[1].fee_bps

\* the pools _create_event_with_markets creates inside its transaction
EventPools(pools, list, payload) ==
    IF payload.group_rule = "exclusive"
    THEN IF ~IdenticalParams(list)
            \/ normalize_amm_params(AsDict(list[1]), <<>>, NumOutcomes(Len(list))).err
         THEN [err |-> TRUE, pools |-> pools]
         ELSE [err |-> FALSE,
               pools |-> EnsurePool(pools, "event",
                                    normalize_amm_params(AsDict(list[1]), <<>>, NumOutcomes(Len(list))),
                                    NumOutcomes(Len(list)), FundingOf(payload, 1))]
    ELSE MarketPools(pools, list, payload, 1)

AnyErr(list) == \E i \in 1..Len(list) : list[i].err

\* POST create_event: a payload that does not normalize is answered 400; a failure
\* inside the transaction rolls every pool back
create_event ==
    /\ amm_payload.path = "create_event" /\ ~amm_payload.done
    /\ IF AnyErr(AmmParamsList(amm_payload))
          \/ EventPools(amm_pools, AmmParamsList(amm_payload), amm_payload).err
       THEN /\ amm_payload' = [amm_payload EXCEPT !.done = TRUE, !.err = TRUE]
            /\ UNCHANGED amm_pools
       ELSE /\ amm_payload' = [amm_payload EXCEPT !.done = TRUE]
            /\ amm_pools' = EventPools(amm_pools, AmmParamsList(amm_payload), amm_payload).pools
    /\ UNCHANGED <<db, w, held, pc, call, loc, res, paid, clock, quote_args, quoted, funded, ens, b_calls, grp, cch, stl,
                   dep, fin>>

\* the key and the option count of the pool a direct call is about
DirectKey(payload) == IF payload.group_rule = "exclusive" THEN "event" ELSE "m1"
DirectOptions(payload) ==
    IF payload.group_rule = "exclusive" THEN Len(payload.markets) ELSE BinaryOptions

\* ensure_pool_initialized(market=... or event=..., amm_params=raw) with the raw
\* parameters of the first market
ensure_pool_initialized ==
    /\ amm_payload.path = "ensure_pool_initialized" /\ ~amm_payload.done
    /\ IF normalize_amm_params(amm_payload.markets[1], <<>>,
                               NumOutcomes(DirectOptions(amm_payload))).err
       THEN /\ amm_payload' = [amm_payload EXCEPT !.done = TRUE, !.err = TRUE]
            /\ UNCHANGED amm_pools
       ELSE /\ amm_payload' = [amm_payload EXCEPT !.done = TRUE]
            /\ amm_pools' = EnsurePool(amm_pools, DirectKey(amm_payload),
                                normalize_amm_params(amm_payload.markets[1], <<>>,
                                    NumOutcomes(DirectOptions(amm_payload))),
                                NumOutcomes(DirectOptions(amm_payload)),
                                Truthy(Get(amm_payload.markets[1], "initial_funding_amount")))
    /\ UNCHANGED <<db, w, held, pc, call, loc, res, paid, clock, quote_args, quoted, funded, ens, b_calls, grp, cch, stl,
                   dep, fin>>

\* AMM parameter objects of a payload
AmmObjects ==
    { [initial_funding_amount |-> f, b |-> b, fee_bps |-> fee]
      : f \in {NoneNum, 0, FX \div 2, 100 * FX}, b \in {NoneNum, 2 * FX},
        fee \in {NoneNum, 200} }

AmmPayloads ==
    { [NoAmmPayload EXCEPT !.path = path, !.group_rule = rule, !.amm = d, !.markets = ms]
      : path \in {"create_event", "ensure_pool_initialized"},
        rule \in {"standalone", "exclusive"},
        d \in {NoAmm, [NoAmm EXCEPT !.initial_funding_amount = FX]},
        ms \in {<<a>> : a \in AmmObjects}
               \cup {<<a, a>> : a \in AmmObjects}
               \cup {<<a, a, a>> : a \in AmmObjects} }

\* a legacy pool that exists before the call
LegacyPool == [NoAmmPool EXCEPT !.exists = TRUE, !.b = DEFAULT_AMM_B, !.num_outcomes = 2]

InitSetup ==
    /\ Started
    /\ quote_args = NoQuoteArgs
    /\ quoted = QuoteError
    /\ amm_payload \in {a \in AmmPayloads : a.path = "ensure_pool_initialized" => a.amm = NoAmm}
    /\ amm_pools \in {NoAmmPools, [NoAmmPools EXCEPT !["m1"] = LegacyPool]}
    /\ funded = NoFunded
    /\ ens = NoEnsure
    /\ b_calls = NoBCalls
    /\ grp = NoGroup
    /\ cch = NoCache
    /\ stl = NoSettlements

NextSetup == create_event \/ ensure_pool_initialized

SpecSetup == InitSetup /\ [][NextSetup]_vars

-----------------------------------------------------------------------------
(* An exclusive event whose markets share one pool created with initial     *)
(* funding: every call runs alone (trades and settlements of one pool are   *)
(* serialized by the pool row lock)                                         *)

\* trades per behaviour
MaxFundedTrades == 2

\* the Yes and the No option of the i-th market of the event
YesOption(i) == <<"y1", "y2", "y3">>[i]
NoOption(i) == <<"n1", "n2", "n3">>[i]

\* the PoolState _lock_pool_state builds for the event-level pool: one state row per
\* market, that of its Yes option (option_index 1)
FundedState(f) ==
    [b |-> f.b, fee_bps |-> f.fee_bps,
     option_ids |-> [i \in 1..f.N |-> YesOption(i)],
     option_indexes |-> [i \in 1..f.N |-> 1],
     q |-> f.q,
     no_to_yes |-> [o \in {NoOption(i) : i \in 1..f.N} |->
                      [yes |-> YesOption(CHOOSE i \in 1..f.N : NoOption(i) = o),
                       idx |-> CHOOSE i \in 1..f.N : NoOption(i) = o]],
     is_exclusive |-> TRUE]

\* the event and its pool as ensure_pool_initialized(event=..., amm_params=raw) stores
\* them for n markets and the funding F
FundedPool(n, F, fee_bps) ==
    CreatedPool(normalize_amm_params([initial_funding_amount |-> F, b |-> NoneNum,
                                      fee_bps |-> fee_bps], <<>>, NumOutcomes(n)),
                NumOutcomes(n), F)

FundedEvent(n, pool, balance, winner) ==
    [NoFunded EXCEPT !.N = n, !.b = pool.b, !.fee_bps = pool.fee_bps,
                     !.initial_funding = pool.initial_funding,
                     !.q = [i \in 1..n |-> 0],
                     !.collateral_amount = pool.collateral_amount,
                     !.balance = balance,
                     !.yes = [i \in 1..n |-> 0], !.no = [i \in 1..n |-> 0],
                     !.status = [i \in 1..n |-> "active"],
                     !.event_active = TRUE, !.winner = winner,
                     !.yes_bps = [i \in 1..n |-> bps_of(FX \div n)],
                     !.no_bps = [i \in 1..n |-> BPS - bps_of(FX \div n)],
                     !.second = [balance |-> 0, yes |-> [i \in 1..n |-> 0],
                                 no |-> [i \in 1..n |-> 0]]]

\* faulty variant of FundedBuyQ: a No-side buy raises the q of its own market
FundedBuyQOnTarget(f, i, is_no_side, quote) == AddAt(f.q, i, quote.shares)

\* q after a buy (execution.py 561-577)
FundedBuyQ(f, i, is_no_side, quote) ==
    IF is_no_side /\ Len(quote.deltas) > 0
    THEN [j \in 1..f.N |-> IF quote.deltas[j] > 0 THEN f.q[j] + quote.deltas[j] ELSE f.q[j]]
    ELSE AddAt(f.q, i, quote.shares)

\* execute_buy of amount_in on the Yes or the No option of market i, with its quote
FundedBought(f, i, is_no_side, amount_in, quote) ==
    IF ~f.event_active THEN [f EXCEPT !.code = "EVENT_NOT_ACTIVE"]
    ELSE IF f.status[i] # "active" THEN [f EXCEPT !.code = "MARKET_NOT_ACTIVE"]
    ELSE IF quote.err THEN [f EXCEPT !.code = "QUOTE_MATH_ERROR"]
    ELSE IF quote.shares <= 0 THEN [f EXCEPT !.code = "AMOUNT_TOO_LOW"]
    ELSE IF f.balance < amount_in THEN [f EXCEPT !.code = "INSUFFICIENT_BALANCE"]
    ELSE [f EXCEPT !.code = "OK",
                   !.trades = @ + 1,
                   !.balance = @ - amount_in,
                   !.yes = IF is_no_side THEN @ ELSE AddAt(@, i, quote.shares),
                   !.no = IF is_no_side THEN AddAt(@, i, quote.shares) ELSE @,
                   !.q = FundedBuyQ(f, i, is_no_side, quote),
                   !.pool_cash = @ + amount_in]

FundedAmounts == {FX, 3 * FX}

funded_buy ==
    /\ funded.N > 0 /\ funded.trades < MaxFundedTrades
    /\ \E i \in 1..funded.N, is_no_side \in BOOLEAN, amount_in \in FundedAmounts :
         funded' = FundedBought(funded, i, is_no_side, amount_in,
                       quote_from_state(FundedState(funded), YesOption(i), NoneNum, "buy",
                                        amount_in, NoneNum, is_no_side))
    /\ UNCHANGED <<db, w, held, pc, call, loc, res, paid, clock, quote_args, quoted,
                   amm_payload, amm_pools, ens, b_calls, grp, cch, stl, dep, fin>>

\* q after a sell of sold shares (execution.py 801-818)
FundedSellQ(f, i, is_no_side, quote, sold) ==
    IF is_no_side /\ Len(quote.deltas) > 0
    THEN [j \in 1..f.N |-> IF quote.deltas[j] # 0 THEN f.q[j] + quote.deltas[j] ELSE f.q[j]]
    ELSE AddAt(f.q, i, -sold)

\* execute_sell of the whole position on the Yes or the No option of market i
FundedSold(f, i, is_no_side, shares, quote) ==
    IF ~f.event_active THEN [f EXCEPT !.code = "EVENT_NOT_ACTIVE"]
    ELSE IF f.status[i] # "active" THEN [f EXCEPT !.code = "MARKET_NOT_ACTIVE"]
    ELSE IF shares <= 0 THEN [f EXCEPT !.code = "NO_POSITION"]
    ELSE IF quote.err THEN [f EXCEPT !.code = "QUOTE_MATH_ERROR"]
    ELSE IF quote.amount <= 0 THEN [f EXCEPT !.code = "AMOUNT_TOO_LOW"]
    ELSE [f EXCEPT !.code = "OK",
                   !.trades = @ + 1,
                   !.balance = @ + quote.amount,
                   !.yes = IF is_no_side THEN @ ELSE AddAt(@, i, -shares),
                   !.no = IF is_no_side THEN AddAt(@, i, -shares) ELSE @,
                   !.q = FundedSellQ(f, i, is_no_side, quote, shares),
                   !.pool_cash = @ - quote.amount]

FundedPosition(f, i, is_no_side) == IF is_no_side THEN f.no[i] ELSE f.yes[i]

funded_sell ==
    /\ funded.N > 0 /\ funded.trades < MaxFundedTrades
    /\ \E i \in 1..funded.N, is_no_side \in BOOLEAN :
         /\ FundedPosition(funded, i, is_no_side) > DUST_THRESHOLD
         /\ funded' = FundedSold(funded, i, is_no_side,
                          FundedPosition(funded, i, is_no_side),
                          quote_from_state(FundedState(funded), YesOption(i), NoneNum,
                                           "sell", NoneNum,
                                           FundedPosition(funded, i, is_no_side),
                                           is_no_side))
    /\ UNCHANGED <<db, w, held, pc, call, loc, res, paid, clock, quote_args, quoted,
                   amm_payload, amm_pools, ens, b_calls, grp, cch, stl, dep, fin>>

\* _settle_market_internal of market i with the payout of its winning positions; a
\* Yes outcome resolves the event
FundedSettled(f, i, yes_wins, total_payout, fund) ==
    IF ~fund.ok THEN [f EXCEPT !.code = "INSUFFICIENT_FUNDS"]
    ELSE [f EXCEPT !.code = "SETTLED",
                   !.status = [@ EXCEPT ![i] = "resolved"],
                   !.event_active = @ /\ ~yes_wins,
                   !.balance = @ + total_payout,
                   !.pool_cash = @ - fund.pool_cash_used,
                   !.collateral_amount = @ - fund.collateral_used,
                   !.collateral_used = @ + fund.collateral_used]

\* resolve_and_settle_market (the winning market, Yes) or
\* resolve_and_settle_market_partial (a losing market, No)
funded_settle ==
    /\ funded.N > 0
    /\ \E i \in 1..funded.N :
         /\ funded.status[i] = "active"
         /\ funded' = FundedSettled(funded, i, i = funded.winner,
                          FundedPosition(funded, i, i # funded.winner),
                          funding(funded.pool_cash, funded.collateral_amount,
                                  FundedPosition(funded, i, i # funded.winner)))
    /\ UNCHANGED <<db, w, held, pc, call, loc, res, paid, clock, quote_args, quoted,
                   amm_payload, amm_pools, ens, b_calls, grp, cch, stl, dep, fin>>

InitFunded ==
    /\ Started
    /\ quote_args = NoQuoteArgs
    /\ quoted = QuoteError
    /\ amm_payload = NoAmmPayload
    /\ amm_pools = NoAmmPools
    /\ ens = NoEnsure
    /\ b_calls = NoBCalls
    /\ grp = NoGroup
    /\ cch = NoCache
    /\ stl = NoSettlements
    /\ \E n \in {2, 3}, F \in {FX, 2 * FX}, fee_bps \in {0, 200} :
         \E winner \in 1..n :
            funded = FundedEvent(n, FundedPool(n, F, fee_bps), 4 * FX, winner)

NextFunded == funded_buy \/ funded_sell \/ funded_settle

SpecFunded == InitFunded /\ [][NextFunded]_vars

\* the net amounts a seller asks for
FundedDesired == {FX \div 4}

\* execute_sell with desired_amount_out: the shares sold are those of the quote
\* (execution.py 766-779), then as any sell
FundedSoldAmount(f, i, is_no_side, position, quote) ==
    IF position <= 0 THEN [f EXCEPT !.code = "NO_POSITION"]
    ELSE IF quote.err THEN [f EXCEPT !.code = "QUOTE_MATH_ERROR"]
    ELSE IF quote.shares <= 0 THEN [f EXCEPT !.code = "INVALID_PARAM"]
    ELSE IF shares_to_sell([shares |-> position], quote) > position
    THEN [f EXCEPT !.code = "INSUFFICIENT_SHARES"]
    ELSE FundedSold(f, i, is_no_side, shares_to_sell([shares |-> position], quote), quote)

funded_sell_amount ==
    /\ funded.N > 0 /\ funded.trades < MaxFundedTrades
    /\ \E i \in 1..funded.N, is_no_side \in BOOLEAN, desired \in FundedDesired :
         funded' = FundedSoldAmount(funded, i, is_no_side,
                       FundedPosition(funded, i, is_no_side),
                       quote_from_state(FundedState(funded), YesOption(i), NoneNum, "sell",
                                        desired, NoneNum, is_no_side))
    /\ UNCHANGED <<db, w, held, pc, call, loc, res, paid, clock, quote_args, quoted,
                   amm_payload, amm_pools, ens, b_calls, grp, cch, stl, dep, fin>>

\* the funded event with sells in every mode
NextFundedSell == funded_buy \/ funded_sell \/ funded_sell_amount

SpecFundedSell == InitFunded /\ [][NextFundedSell]_vars

\* the markets of the event that are not resolved, in the order of their state rows
FundedOpen(f) ==
    LET Open(j) == f.status[j] # "resolved"
    IN  SelectSeq([j \in 1..f.N |-> j], Open)

\* MarketOptionStats after _recompute_option_probs(option_states, b, is_exclusive=True)
\* over the state rows of the markets in rows: the Yes option of each reads its
\* price, its No option the complement (execution.py 257-350)
FundedStats(f, rows, bps) ==
    [f EXCEPT !.yes_bps = [j \in 1..f.N |->
                              IF \E k \in 1..Len(rows) : rows[k] = j
                              THEN bps[CHOOSE k \in 1..Len(rows) : rows[k] = j] ELSE @[j]],
              !.no_bps = [j \in 1..f.N |->
                              IF \E k \in 1..Len(rows) : rows[k] = j
                              THEN BPS - bps[CHOOSE k \in 1..Len(rows) : rows[k] = j]
                              ELSE @[j]]]

FundedPrices(f, rows) == bps_from_probabilities(prices([k \in 1..Len(rows) |-> f.q[rows[k]]], f.b))

\* a trade that went through recomputes the stats over every state row
\* _lock_pool_state returned (execution.py 582, 821)
FundedTradeStats(g) ==
    IF g.code # "OK" THEN g
    ELSE FundedStats(g, [j \in 1..g.N |-> j], FundedPrices(g, [j \in 1..g.N |-> j]))

\* _set_resolved_option_stats on market i (settlement.py 71-84), then for a partial
\* settlement _refresh_exclusive_pool_probs over the markets still open
\* (settlement.py 87-112, 708-710)
FundedSettleStats(g, i, yes_wins) ==
    IF g.code # "SETTLED" THEN g
    ELSE IF yes_wins \/ Len(FundedOpen(g)) = 0
    THEN [g EXCEPT !.yes_bps[i] = IF yes_wins THEN BPS ELSE 0,
                   !.no_bps[i] = IF yes_wins THEN 0 ELSE BPS]
    ELSE FundedStats([g EXCEPT !.yes_bps[i] = 0, !.no_bps[i] = BPS],
                     FundedOpen(g), FundedPrices(g, FundedOpen(g)))

\* execute_buy with the option stats it leaves
funded_buy_stats ==
    /\ funded.N > 0 /\ funded.trades < MaxFundedTrades
    /\ \E i \in 1..funded.N, is_no_side \in BOOLEAN, amount_in \in FundedAmounts :
         funded' = FundedTradeStats(
                       FundedBought(funded, i, is_no_side, amount_in,
                           quote_from_state(FundedState(funded), YesOption(i), NoneNum, "buy",
                                            amount_in, NoneNum, is_no_side)))
    /\ UNCHANGED <<db, w, held, pc, call, loc, res, paid, clock, quote_args, quoted,
                   amm_payload, amm_pools, ens, b_calls, grp, cch, stl, dep, fin>>

\* resolve_and_settle_market (the winning market, Yes) or
\* resolve_and_settle_market_partial (a losing market, No) with the option stats
funded_settle_stats ==
    /\ funded.N > 0
    /\ \E i \in 1..funded.N :
         /\ funded.status[i] = "active"
         /\ funded' = FundedSettleStats(
                          FundedSettled(funded, i, i = funded.winner,
                              FundedPosition(funded, i, i # funded.winner),
                              funding(funded.pool_cash, funded.collateral_amount,
                                      FundedPosition(funded, i, i # funded.winner))),
                          i, i = funded.winner)
    /\ UNCHANGED <<db, w, held, pc, call, loc, res, paid, clock, quote_args, quoted,
                   amm_payload, amm_pools, ens, b_calls, grp, cch, stl, dep, fin>>

\* the funded event with the option stats of its markets
NextFundedStats == funded_buy_stats \/ funded_settle_stats

SpecFundedStats == InitFunded /\ [][NextFundedStats]_vars

\* the tokens a trade can name: the pool's collateral token and another one, of
\* which the user holds a balance (a redemption code carries its own token)
Tokens == {DEFAULT_TOKEN, "USDT"}

\* the balance row _lock_balance(user.id, token, now) locks is the one the trade
\* reads and writes (execution.py 175-196, 468, 549-552, 714, 824-828): other_balance
\* stands in the place of balance when the token is not the pool's
FundedInToken(f, token) ==
    IF token = PoolRowStatic("pl1").collateral_token THEN f
    ELSE [f EXCEPT !.balance = f.other_balance, !.other_balance = f.balance]

\* execute_buy with the token of the request
funded_buy_token ==
    /\ funded.N > 0 /\ funded.trades < MaxFundedTrades
    /\ \E i \in 1..funded.N, is_no_side \in BOOLEAN, amount_in \in FundedAmounts,
          token \in Tokens :
         funded' = FundedInToken(
                       FundedBought(FundedInToken(funded, token), i, is_no_side, amount_in,
                           quote_from_state(FundedState(funded), YesOption(i), NoneNum, "buy",
                                            amount_in, NoneNum, is_no_side)),
                       token)
    /\ UNCHANGED <<db, w, held, pc, call, loc, res, paid, clock, quote_args, quoted,
                   amm_payload, amm_pools, ens, b_calls, grp, cch, stl, dep, fin>>

\* execute_sell of the whole position with the token of the request
funded_sell_token ==
    /\ funded.N > 0 /\ funded.trades < MaxFundedTrades
    /\ \E i \in 1..funded.N, is_no_side \in BOOLEAN, token \in Tokens :
         /\ FundedPosition(funded, i, is_no_side) > DUST_THRESHOLD
         /\ funded' = FundedInToken(
                          FundedSold(FundedInToken(funded, token), i, is_no_side,
                              FundedPosition(funded, i, is_no_side),
                              quote_from_state(FundedState(funded), YesOption(i), NoneNum,
                                               "sell", NoneNum,
                                               FundedPosition(funded, i, is_no_side),
                                               is_no_side)),
                          token)
    /\ UNCHANGED <<db, w, held, pc, call, loc, res, paid, clock, quote_args, quoted,
                   amm_payload, amm_pools, ens, b_calls, grp, cch, stl, dep, fin>>

\* a funded event whose user also holds a balance in the other token
InitFundedToken ==
    /\ Started
    /\ quote_args = NoQuoteArgs
    /\ quoted = QuoteError
    /\ amm_payload = NoAmmPayload
    /\ amm_pools = NoAmmPools
    /\ ens = NoEnsure
    /\ b_calls = NoBCalls
    /\ grp = NoGroup
    /\ cch = NoCache
    /\ stl = NoSettlements
    /\ \E n \in {2, 3}, F \in {FX, 2 * FX}, fee_bps \in {0, 200} :
         \E winner \in 1..n :
            funded = [FundedEvent(n, FundedPool(n, F, fee_bps), 4 * FX, winner)
                         EXCEPT !.other_balance = 4 * FX]

NextFundedToken == funded_buy_token \/ funded_sell_token \/ funded_settle

SpecFundedToken == InitFundedToken /\ [][NextFundedToken]_vars

\* the event as the trade of user sees it: the balance and position rows a trade
\* locks and writes are those of its user (execution.py 468-473, 714-716); the rows
\* of the second user stand in the place of the first user's
FundedAs(f, user) ==
    IF user = "u1" THEN f
    ELSE [f EXCEPT !.balance = f.second.balance, !.yes = f.second.yes, !.no = f.second.no,
                   !.second = [balance |-> f.balance, yes |-> f.yes, no |-> f.no]]

MaxLedgerTrades == 4

LedgerAmounts == {FX \div 20, FX \div 2, FX}

\* execute_buy of a Yes option by one of two users
funded_buy_as ==
    /\ funded.N > 0 /\ funded.trades < MaxLedgerTrades
    /\ \E user \in Users, i \in 1..funded.N, amount_in \in LedgerAmounts :
         funded' = FundedAs(
                       FundedBought(FundedAs(funded, user), i, FALSE, amount_in,
                           quote_from_state(FundedState(funded), YesOption(i), NoneNum, "buy",
                                            amount_in, NoneNum, FALSE)),
                       user)
    /\ UNCHANGED <<db, w, held, pc, call, loc, res, paid, clock, quote_args, quoted,
                   amm_payload, amm_pools, ens, b_calls, grp, cch, stl, dep, fin>>

\* execute_sell by one of two users of a little more than the shares held
funded_sell_as ==
    /\ funded.N > 0 /\ funded.trades < MaxLedgerTrades
    /\ \E user \in Users, i \in 1..funded.N :
         /\ FundedAs(funded, user).yes[i] > DUST_THRESHOLD
         /\ funded' = FundedAs(
                          FundedSoldAmount(FundedAs(funded, user), i, FALSE,
                              FundedAs(funded, user).yes[i],
                              quote_from_state(FundedState(funded), YesOption(i), NoneNum,
                                  "sell", NoneNum,
                                  FundedAs(funded, user).yes[i] + (99 * FX) \div 10000,
                                  FALSE)),
                          user)
    /\ UNCHANGED <<db, w, held, pc, call, loc, res, paid, clock, quote_args, quoted,
                   amm_payload, amm_pools, ens, b_calls, grp, cch, stl, dep, fin>>

\* an event of two markets, funded with 1 at no fee, and two users holding 4 each
InitLedger ==
    /\ Started
    /\ quote_args = NoQuoteArgs
    /\ quoted = QuoteError
    /\ amm_payload = NoAmmPayload
    /\ amm_pools = NoAmmPools
    /\ ens = NoEnsure
    /\ b_calls = NoBCalls
    /\ grp = NoGroup
    /\ cch = NoCache
    /\ stl = NoSettlements
    /\ funded = [FundedEvent(2, FundedPool(2, FX, 0), 4 * FX, 1)
                    EXCEPT !.second.balance = 4 * FX]

NextLedger == funded_buy_as \/ funded_sell_as

SpecLedger == InitLedger /\ [][NextLedger]_vars

\* by how much the shares a seller names exceed the position held
SellExcess == {FX \div 200, (99 * FX) \div 10000, FX \div 100}

\* execute_sell of the Yes position on market i naming position + excess shares
\* (execution.py 750-818)
funded_sell_excess ==
    /\ funded.N > 0 /\ funded.trades < MaxFundedTrades
    /\ \E i \in 1..funded.N, excess \in SellExcess :
         funded' = FundedSoldAmount(funded, i, FALSE, funded.yes[i],
                       quote_from_state(FundedState(funded), YesOption(i), NoneNum, "sell",
                                        NoneNum, funded.yes[i] + excess, FALSE))
    /\ UNCHANGED <<db, w, held, pc, call, loc, res, paid, clock, quote_args, quoted,
                   amm_payload, amm_pools, ens, b_calls, grp, cch, stl, dep, fin>>

\* the funded event with sells that name more shares than are held
NextFundedExcess == funded_buy \/ funded_sell_excess

SpecFundedExcess == InitFunded /\ [][NextFundedExcess]_vars

\* MarketOption.objects.get(option_index=option_index, market=market) on the i-th
\* market of the event (execution.py 164): its Yes option has option_index 1, its No
\* option option_index 0
FundedOption(i, option_index) == IF option_index = 1 THEN YesOption(i) ELSE NoOption(i)

\* execute_buy of amount_in on market i with the option named by its option_index:
\* the quote is asked for with the request's option_id (None) and option_index
\* (execution.py 462-501), the q written is that of the option's own state row
funded_buy_index ==
    /\ funded.N > 0 /\ funded.trades < MaxFundedTrades
    /\ \E i \in 1..funded.N, option_index \in {0, 1}, amount_in \in FundedAmounts :
         funded' = FundedBought(funded, i,
                       IsNoSide(FundedState(funded), FundedOption(i, option_index)),
                       amount_in,
                       trade_quote([option_id |-> NoneId, option_index |-> option_index],
                                   FundedState(funded), FundedOption(i, option_index),
                                   "buy", amount_in, NoneNum))
    /\ UNCHANGED <<db, w, held, pc, call, loc, res, paid, clock, quote_args, quoted,
                   amm_payload, amm_pools, ens, b_calls, grp, cch, stl, dep, fin>>

\* the funded event with buys that name the option by id or by index
NextFundedIndex == funded_buy \/ funded_buy_index

SpecFundedIndex == InitFunded /\ [][NextFundedIndex]_vars

-----------------------------------------------------------------------------
(* ensure_pool_initialized called by concurrent requests for one market or  *)
(* exclusive event (READ COMMITTED: a call sees committed rows only)        *)

\* calls per behaviour
MaxEnsureCalls == 3

\* option ids of the market m1, or the Yes options of the exclusive event
EnsureOptionIds(key) == IF key = "event" THEN {"y1", "y2", "y3"} ELSE {"o0", "o1"}

\* committed pool rows of a market or event
PoolRowsOf(pools, key) == {i \in 1..Len(pools) : pools[i].key = key}

\* faulty variant of UniqueViolation: the table has no unique constraint
NoUniqueConstraint(pools, key) == FALSE

\* unique(market_id) / unique(event_id) of amm_pools (OneToOneField)
UniqueViolation(pools, key) == PoolRowsOf(pools, key) # {}

\* another transaction has inserted a pool row of the key and not yet finished: the
\* INSERT waits for it
PoolInsertBlocked(e, p) ==
    \E o \in DOMAIN e.tx : o # p /\ e.tx[o].pool_ins # <<>>

\* the parameter objects the callers pass
EnsureRaws ==
    { [initial_funding_amount |-> FX, b |-> NoneNum, fee_bps |-> 200],
      [initial_funding_amount |-> NoneNum, b |-> 2 * FX, fee_bps |-> NoneNum] }

\* lines 270-293: option ids, normalized parameters, and the look-up of the pool
ensure_begin(p) ==
    /\ ens.key # NoneId /\ ens.tx[p].pc = "idle" /\ ens.calls < MaxEnsureCalls
    /\ \E raw \in EnsureRaws :
         ens' = [ens EXCEPT
                   !.calls = @ + 1,
                   !.tx[p] = [NoEnsureTx EXCEPT
                       !.raw = raw,
                       !.params = normalize_amm_params(raw, <<>>,
                                      NumOutcomes(Cardinality(EnsureOptionIds(ens.key)))),
                       !.pc = IF PoolRowsOf(ens.pools, ens.key) # {} THEN "backfill"
                              ELSE "create"]]
    /\ UNCHANGED <<db, w, held, pc, call, loc, res, paid, clock, quote_args, quoted,
                   amm_payload, amm_pools, funded, b_calls, grp, cch, stl, dep, fin>>

\* the row AmmPool.objects.create inserts
EnsurePoolRow(key, tx) ==
    [key |-> key,
     row |-> CreatedPool(tx.params, NumOutcomes(Cardinality(EnsureOptionIds(key))),
                         Truthy(Get(tx.raw, "initial_funding_amount")))]

\* lines 294-320: AmmPool.objects.create; on IntegrityError the handler re-fetches the
\* pool, which Django answers with TransactionManagementError in a transaction already
\* marked for rollback: the call goes on with the existing pool or is rolled back
ensure_create(p) ==
    /\ ens.tx[p].pc = "create"
    /\ ~PoolInsertBlocked(ens, p)
    /\ IF UniqueViolation(ens.pools, ens.key)
       THEN \/ ens' = [ens EXCEPT !.tx[p].pc = "backfill"]
            \/ ens' = [ens EXCEPT !.tx[p] = NoEnsureTx]
       ELSE ens' = [ens EXCEPT !.tx[p].pc = "backfill",
                               !.tx[p].pool_ins = EnsurePoolRow(ens.key, ens.tx[p])]
    /\ UNCHANGED <<db, w, held, pc, call, loc, res, paid, clock, quote_args, quoted,
                   amm_payload, amm_pools, funded, b_calls, grp, cch, stl, dep, fin>>

\* options that have a committed option-state row (option_id is the primary key)
WithState(states) == {r.option : r \in states}

\* another transaction has inserted a state row of one of the options
StateInsertBlocked(e, p) ==
    \E o \in DOMAIN e.tx : o # p /\ e.tx[o].state_ins # {}

\* faulty variant of backfill_states: every option gets a fresh row, existing ones
\* are replaced
backfill_states_overwriting(states, key) ==
    [kept |-> {}, ins |-> {[key |-> key, option |-> o, q |-> 0] : o \in EnsureOptionIds(key)}]

\* bulk_create(ignore_conflicts=True): a row with q = 0 for every option without one
backfill_states(states, key) ==
    [kept |-> states,
     ins |-> {[key |-> key, option |-> o, q |-> 0]
              : o \in EnsureOptionIds(key) \ WithState(states)}]

\* lines 322-335: the option states are backfilled
ensure_backfill(p) ==
    /\ ens.tx[p].pc = "backfill"
    /\ ~StateInsertBlocked(ens, p)
    /\ ens' = [ens EXCEPT !.tx[p].pc = "commit",
                          !.states = backfill_states(ens.states, ens.key).kept,
                          !.tx[p].state_ins = backfill_states(ens.states, ens.key).ins]
    /\ UNCHANGED <<db, w, held, pc, call, loc, res, paid, clock, quote_args, quoted,
                   amm_payload, amm_pools, funded, b_calls, grp, cch, stl, dep, fin>>

\* the transaction commits: its inserts become visible
ensure_commit(p) ==
    /\ ens.tx[p].pc = "commit"
    /\ ens' = [ens EXCEPT
                 !.pools = IF ens.tx[p].pool_ins = <<>> THEN @
                           ELSE Append(@, ens.tx[p].pool_ins),
                 !.states = @ \cup ens.tx[p].state_ins,
                 !.tx[p] = NoEnsureTx]
    /\ UNCHANGED <<db, w, held, pc, call, loc, res, paid, clock, quote_args, quoted,
                   amm_payload, amm_pools, funded, b_calls, grp, cch, stl, dep, fin>>

\* a trade on the pool moves the q of an option state
ensure_trade ==
    /\ \E r \in ens.states :
         /\ r.q = 0
         /\ ens' = [ens EXCEPT !.states = (@ \ {r}) \cup {[r EXCEPT !.q = FX]}]
    /\ UNCHANGED <<db, w, held, pc, call, loc, res, paid, clock, quote_args, quoted,
                   amm_payload, amm_pools, funded, b_calls, grp, cch, stl, dep, fin>>

\* a legacy pool with one option state traded and the other one missing
LegacyEnsure(key) ==
    [NoEnsure EXCEPT !.key = key,
                     !.pools = <<[key |-> key, row |-> LegacyPool]>>,
                     !.states = {[key |-> key, option |-> CHOOSE o \in EnsureOptionIds(key) : TRUE,
                                  q |-> FX]}]

InitEnsure ==
    /\ Started
    /\ quote_args = NoQuoteArgs
    /\ quoted = QuoteError
    /\ amm_payload = NoAmmPayload
    /\ amm_pools = NoAmmPools
    /\ funded = NoFunded
    /\ b_calls = NoBCalls
    /\ grp = NoGroup
    /\ cch = NoCache
    /\ stl = NoSettlements
    /\ \E key \in {"m1", "event"} :
         ens \in {[NoEnsure EXCEPT !.key = key], LegacyEnsure(key)}

NextEnsure ==
    \/ ensure_trade
    \/ \E p \in Procs :
         \/ ensure_begin(p)
         \/ ensure_create(p)
         \/ ensure_backfill(p)
         \/ ensure_commit(p)

SpecEnsure == InitEnsure /\ [][NextEnsure]_vars

-----------------------------------------------------------------------------
(* setup.py: compute_b_from_funding over a range of outcome counts           *)

MaxOutcomes == 8

\* funding amounts from below zero up to twenty units; 1 is the smallest amount
\* the precision can hold
BFundings == {0 - FX, 0, 1, 2, 10, 100, FX, 2 * FX, 10 * FX, 20 * FX}

\* compute_b_from_funding is called for one more number of outcomes
compute_b_call ==
    /\ \E n \in (0..MaxOutcomes) \ DOMAIN b_calls.out :
         b_calls' = [b_calls EXCEPT
                       !.out = @ @@ (n :> compute_b_from_funding(b_calls.funding_amount, n))]
    /\ UNCHANGED <<db, w, held, pc, call, loc, res, paid, clock, quote_args, quoted,
                   amm_payload, amm_pools, funded, ens, grp, cch, stl, dep, fin>>

InitComputeB ==
    /\ Started
    /\ grp = NoGroup
    /\ cch = NoCache
    /\ stl = NoSettlements
    /\ quote_args = NoQuoteArgs
    /\ quoted = QuoteError
    /\ amm_payload = NoAmmPayload
    /\ amm_pools = NoAmmPools
    /\ funded = NoFunded
    /\ ens = NoEnsure
    /\ \E F \in BFundings : b_calls = [NoBCalls EXCEPT !.funding_amount = F]

NextComputeB == compute_b_call

SpecComputeB == InitComputeB /\ [][NextComputeB]_vars

-----------------------------------------------------------------------------
(* settlement.py: an event of several binary markets settled market by      *)
(* market (each call is one transaction; the event row is locked by each)   *)

\* calls per behaviour
MaxEventCalls == 3

\* option_index of a binary market's options: NO = 0, YES = 1
SideIndex(side) == IF side = "no" THEN 0 ELSE 1

\* the pool a market trades in: the event's pool if the event is exclusive
GroupPool(g, i) == IF g.group_rule = "exclusive" THEN 1 ELSE i

\* faulty variant of partial_option_check: any outcome may be settled partially
partial_option_check_any(group_rule, side) == "OK"

\* settlement.py 655-679: the group rule and the side of the winning option
partial_option_check(group_rule, side) ==
    IF group_rule \notin {"exclusive", "independent"} THEN "INVALID_GROUP_RULE"
    ELSE IF group_rule = "exclusive" /\ side # "no" THEN "INVALID_PARTIAL_OPTION"
    ELSE "OK"

\* _resolve_market_internal with skip_status_update=True on market i
GroupResolved(g, i, side) ==
    LET market == g.market[i]
    IN  IF market.status = "resolved" /\ market.settled
        THEN [code |-> "OK", already_resolved |-> TRUE, g |-> g]
        ELSE IF market.status \notin {"active", "closed", "resolved"}
        THEN [code |-> "INVALID_STATUS", already_resolved |-> FALSE, g |-> g]
        ELSE [code |-> "OK", already_resolved |-> FALSE,
              g |-> [g EXCEPT !.market[i].resolved_option_index = SideIndex(side)]]

\* the shares of the winning option of market i
GroupPayout(g, i) ==
    IF g.market[i].resolved_option_index = 1 THEN g.pos[i].yes ELSE g.pos[i].no

\* _settle_market_internal of market i, funded by fund
GroupSettled(g, i, fund, event_status, close) ==
    IF g.market[i].settled THEN [code |-> "OK", g |-> g]
    ELSE IF g.market[i].resolved_option_index = NoneNum
    THEN [code |-> "NO_RESOLVED_OPTION", g |-> g]
    ELSE IF ~fund.ok THEN [code |-> "INSUFFICIENT_FUNDS", g |-> g]
    ELSE [code |-> "OK",
          g |-> [g EXCEPT
                   !.balance = @ + GroupPayout(g, i),
                   !.pool[GroupPool(g, i)] =
                       [@ EXCEPT !.pool_cash = @ - fund.pool_cash_used,
                                 !.collateral_amount = @ - fund.collateral_used,
                                 !.status = IF close THEN "closed" ELSE @],
                   !.market[i] = [@ EXCEPT !.status = "resolved", !.settled = TRUE],
                   !.event = IF event_status
                             THEN [status |-> "resolved", resolved_market |-> i] ELSE @]]

GroupSettle(g, i, event_status, close) ==
    GroupSettled(g, i,
                 funding(g.pool[GroupPool(g, i)].pool_cash,
                         g.pool[GroupPool(g, i)].collateral_amount, GroupPayout(g, i)),
                 event_status, close)

\* markets of the event that are neither resolved nor canceled
Unresolved(g) == {i \in 1..Len(g.market) : g.market[i].status \notin {"resolved", "canceled"}}

\* the resolved market whose winner is its YES option, if the event is exclusive
ResolvedYesMarket(g) ==
    LET yes == {i \in 1..Len(g.market) : /\ g.market[i].status = "resolved"
                                          /\ g.market[i].resolved_option_index = 1}
    IN  IF g.group_rule = "exclusive" /\ yes # {} THEN CHOOSE i \in yes : TRUE ELSE 0

\* faulty variant of SyncedEvent: a resolved event is left resolved
SyncedEventWithoutRevert(g) ==
    IF Unresolved(g) # {} THEN g.event
    ELSE [status |-> "resolved", resolved_market |-> ResolvedYesMarket(g)]

\* _sync_event_status_for_partial
SyncedEvent(g) ==
    IF Unresolved(g) # {}
    THEN IF g.event.status = "resolved"
         THEN [status |-> IF g.deadline_passed THEN "closed" ELSE "active",
               resolved_market |-> 0]
         ELSE g.event
    ELSE IF g.event.status # "resolved"
    THEN [status |-> "resolved", resolved_market |-> ResolvedYesMarket(g)]
    ELSE g.event

\* the outcome of a call: the state it commits, or the state before it (rollback)
GroupOutcome(g, code, after, op, i, side) ==
    [(IF code = "OK" THEN after ELSE g) EXCEPT
        !.op = op, !.target = i, !.side = side, !.code = code, !.calls = g.calls + 1]

\* resolve_and_settle_market_partial(market i, winning option of the side)
PartialSettled(g, i, side, check) ==
    LET r == GroupResolved(g, i, side)
        t == GroupSettle(r.g, i, FALSE, g.group_rule # "exclusive")
    IN  IF check # "OK" THEN GroupOutcome(g, check, g, "partial", i, side)
        ELSE IF r.code # "OK" THEN GroupOutcome(g, r.code, g, "partial", i, side)
        ELSE IF r.already_resolved /\ g.market[i].resolved_option_index # SideIndex(side)
        THEN GroupOutcome(g, "ALREADY_RESOLVED", g, "partial", i, side)
        ELSE GroupOutcome(g, t.code, [t.g EXCEPT !.event = SyncedEvent(t.g)],
                          "partial", i, side)

\* resolve_and_settle_market(market i, winning option of the side)
FullSettled(g, i, side) ==
    LET r == GroupResolved(g, i, side)
        t == GroupSettle(r.g, i, TRUE, TRUE)
    IN  IF r.code # "OK" THEN GroupOutcome(g, r.code, g, "full", i, side)
        ELSE GroupOutcome(g, t.code, t.g, "full", i, side)

group_partial ==
    /\ grp.group_rule # "" /\ grp.calls < MaxEventCalls
    /\ \E i \in 1..Len(grp.market), side \in {"yes", "no"} :
         grp' = PartialSettled(grp, i, side, partial_option_check(grp.group_rule, side))
    /\ UNCHANGED <<db, w, held, pc, call, loc, res, paid, clock, quote_args, quoted,
                   amm_payload, amm_pools, funded, ens, b_calls, cch, stl, dep, fin>>

group_full ==
    /\ grp.group_rule # "" /\ grp.calls < MaxEventCalls
    /\ \E i \in 1..Len(grp.market), side \in {"yes", "no"} :
         grp' = FullSettled(grp, i, side)
    /\ UNCHANGED <<db, w, held, pc, call, loc, res, paid, clock, quote_args, quoted,
                   amm_payload, amm_pools, funded, ens, b_calls, cch, stl, dep, fin>>

GroupMarket(status) == [status |-> status, resolved_option_index |-> NoneNum, settled |-> FALSE]

\* an event of n markets; the last one may have been canceled, the user holds NO
\* shares of every market and YES shares of the first
InitGroup ==
    /\ Started
    /\ cch = NoCache
    /\ stl = NoSettlements
    /\ quote_args = NoQuoteArgs
    /\ quoted = QuoteError
    /\ amm_payload = NoAmmPayload
    /\ amm_pools = NoAmmPools
    /\ funded = NoFunded
    /\ ens = NoEnsure
    /\ b_calls = NoBCalls
    /\ \E n \in {2, 3}, rule \in {"exclusive", "independent", "standalone"},
          last \in {"active", "canceled", "draft"}, passed \in BOOLEAN, no \in {FX, 3 * FX} :
         grp = [NoGroup EXCEPT
                  !.group_rule = rule,
                  !.market = [i \in 1..n |-> GroupMarket(IF i = n THEN last ELSE "active")],
                  !.event = [status |-> "active", resolved_market |-> 0],
                  !.pool = [i \in 1..n |-> [status |-> "active", pool_cash |-> FX,
                                            collateral_amount |-> FX]],
                  !.pos = [i \in 1..n |-> [yes |-> IF i = 1 THEN FX ELSE 0, no |-> no]],
                  !.deadline_passed = passed]

NextGroup == group_partial \/ group_full

SpecGroup == InitGroup /\ [][NextGroup]_vars

-----------------------------------------------------------------------------
(* execution.py, quote_loader.py, cache.py: the pool-state cache of a       *)
(* market under trades and a reader (load_pool_state)                       *)

\* trades per behaviour
MaxCacheTrades == 3

\* _lock_pool_state: the pool row is locked by at most one transaction
PoolLockFree(c, p) == \A o \in DOMAIN c.tx : o # p => c.tx[o] = "idle"

\* execute_buy / execute_sell up to _lock_pool_state
cache_trade_lock(p) ==
    /\ cch.on /\ cch.tx[p] = "idle" /\ PoolLockFree(cch, p)
    /\ cch.q + cch.failed < MaxCacheTrades
    /\ cch' = [cch EXCEPT !.tx[p] = "locked"]
    /\ UNCHANGED <<db, w, held, pc, call, loc, res, paid, clock, quote_args, quoted,
                   amm_payload, amm_pools, funded, ens, b_calls, grp, stl, dep, fin>>

\* a guard between the lock and the writes raises: the transaction rolls back
cache_trade_fail(p) ==
    /\ cch.tx[p] = "locked"
    /\ cch' = [cch EXCEPT !.tx[p] = "idle", !.failed = @ + 1]
    /\ UNCHANGED <<db, w, held, pc, call, loc, res, paid, clock, quote_args, quoted,
                   amm_payload, amm_pools, funded, ens, b_calls, grp, stl, dep, fin>>

\* the writes of the trade and invalidate_on_trade, called inside the atomic block
\* (execution.py 548-628): the cache entry is deleted, nothing is committed yet
cache_trade_invalidate(p) ==
    /\ cch.tx[p] = "locked"
    /\ cch' = [cch EXCEPT !.tx[p] = "invalidated",
                          !.invalidations = @ + 1,
                          !.cached = NoneNum]
    /\ UNCHANGED <<db, w, held, pc, call, loc, res, paid, clock, quote_args, quoted,
                   amm_payload, amm_pools, funded, ens, b_calls, grp, stl, dep, fin>>

\* the atomic block is left by return: the trade commits
cache_trade_commit(p) ==
    /\ cch.tx[p] = "invalidated"
    /\ cch' = [cch EXCEPT !.tx[p] = "idle", !.q = @ + 1]
    /\ UNCHANGED <<db, w, held, pc, call, loc, res, paid, clock, quote_args, quoted,
                   amm_payload, amm_pools, funded, ens, b_calls, grp, stl, dep, fin>>

\* load_pool_state: get_cached_pool_state finds no entry (a hit returns the entry and
\* changes nothing)
cache_get ==
    /\ cch.on /\ cch.reader.pc = "idle"
    /\ cch.cached = NoneNum
    /\ cch' = [cch EXCEPT !.reader = [pc |-> "miss", since |-> cch.invalidations, q |-> 0]]
    /\ UNCHANGED <<db, w, held, pc, call, loc, res, paid, clock, quote_args, quoted,
                   amm_payload, amm_pools, funded, ens, b_calls, grp, stl, dep, fin>>

\* load_pool_state: the committed pool and option states are read
cache_load ==
    /\ cch.reader.pc = "miss"
    /\ cch' = [cch EXCEPT !.reader = [@ EXCEPT !.pc = "loaded", !.q = cch.q]]
    /\ UNCHANGED <<db, w, held, pc, call, loc, res, paid, clock, quote_args, quoted,
                   amm_payload, amm_pools, funded, ens, b_calls, grp, stl, dep, fin>>

\* load_pool_state: set_cached_pool_state
cache_set ==
    /\ cch.reader.pc = "loaded"
    /\ cch' = [cch EXCEPT !.cached = cch.reader.q,
                          !.stored = [since |-> cch.reader.since, q |-> cch.reader.q],
                          !.reader = [pc |-> "idle", since |-> 0, q |-> 0]]
    /\ UNCHANGED <<db, w, held, pc, call, loc, res, paid, clock, quote_args, quoted,
                   amm_payload, amm_pools, funded, ens, b_calls, grp, stl, dep, fin>>

\* the entry's time to live ends
cache_expire ==
    /\ cch.cached # NoneNum
    /\ cch' = [cch EXCEPT !.cached = NoneNum]
    /\ UNCHANGED <<db, w, held, pc, call, loc, res, paid, clock, quote_args, quoted,
                   amm_payload, amm_pools, funded, ens, b_calls, grp, stl, dep, fin>>

InitCache ==
    /\ Started
    /\ stl = NoSettlements
    /\ quote_args = NoQuoteArgs
    /\ quoted = QuoteError
    /\ amm_payload = NoAmmPayload
    /\ amm_pools = NoAmmPools
    /\ funded = NoFunded
    /\ ens = NoEnsure
    /\ b_calls = NoBCalls
    /\ grp = NoGroup
    /\ cch \in {[NoCache EXCEPT !.on = TRUE], [NoCache EXCEPT !.on = TRUE, !.cached = 0]}

NextCache ==
    \/ cache_get
    \/ cache_load
    \/ cache_set
    \/ cache_expire
    \/ \E p \in Procs :
         \/ cache_trade_lock(p)
         \/ cache_trade_fail(p)
         \/ cache_trade_invalidate(p)
         \/ cache_trade_commit(p)

SpecCache == InitCache /\ [][NextCache]_vars

-----------------------------------------------------------------------------
(* settlement.py 406-465: two settlements of different markets with their   *)
(* own pools; handler p1 settles the first market, p2 the second            *)

\* user ids; the bound is the number of users
MaxSettleUsers == 3

\* user_ids of Position.objects.filter(market, option, shares > 0).values(...): the
\* query has no order_by and the model no default ordering, so the rows come in any
\* order
WinningUserIds(winners) == Orders(winners)

\* the winning positions are read and the funding is decided (lines 406-439)
settle_read(p) ==
    /\ stl.winners[p] # {} /\ stl.tx[p].pc = "idle"
    /\ \E user_ids \in WinningUserIds(stl.winners[p]) :
         stl' = [stl EXCEPT !.tx[p] = [pc |-> "balances", user_ids |-> user_ids,
                                       locked |-> {}]]
    /\ UNCHANGED <<db, w, held, pc, call, loc, res, paid, clock, quote_args, quoted,
                   amm_payload, amm_pools, funded, ens, b_calls, grp, cch, dep, fin>>

\* the balance row of a user is locked by another settlement
BalanceHeldByOther(s, p, user_id) == \E o \in DOMAIN s.tx : o # p /\ user_id \in s.tx[o].locked

\* select_for_update of the next user's balance row (lines 441-459)
settle_balance(p) ==
    /\ stl.tx[p].pc = "balances" /\ stl.tx[p].user_ids # <<>>
    /\ ~BalanceHeldByOther(stl, p, Head(stl.tx[p].user_ids))
    /\ stl' = [stl EXCEPT !.tx[p].locked = @ \cup {Head(stl.tx[p].user_ids)},
                          !.tx[p].user_ids = Tail(@)]
    /\ UNCHANGED <<db, w, held, pc, call, loc, res, paid, clock, quote_args, quoted,
                   amm_payload, amm_pools, funded, ens, b_calls, grp, cch, dep, fin>>

\* positions, payouts and the commit, which releases the locks
settle_commit(p) ==
    /\ stl.tx[p].pc = "balances" /\ stl.tx[p].user_ids = <<>>
    /\ stl' = [stl EXCEPT !.tx[p] = [pc |-> "done", user_ids |-> <<>>, locked |-> {}]]
    /\ UNCHANGED <<db, w, held, pc, call, loc, res, paid, clock, quote_args, quoted,
                   amm_payload, amm_pools, funded, ens, b_calls, grp, cch, dep, fin>>

InitSettlements ==
    /\ Started
    /\ quote_args = NoQuoteArgs
    /\ quoted = QuoteError
    /\ amm_payload = NoAmmPayload
    /\ amm_pools = NoAmmPools
    /\ funded = NoFunded
    /\ ens = NoEnsure
    /\ b_calls = NoBCalls
    /\ grp = NoGroup
    /\ cch = NoCache
    /\ \E wa, wb \in (SUBSET (1..MaxSettleUsers)) \ {{}} :
         stl = [NoSettlements EXCEPT !.winners = [t \in Procs |-> IF t = "p1" THEN wa ELSE wb]]

NextSettlements ==
    \E p \in Procs : settle_read(p) \/ settle_balance(p) \/ settle_commit(p)

SpecSettlements == InitSettlements /\ [][NextSettlements]_vars

-----------------------------------------------------------------------------
(* Row locks of trades and settlements on the markets of one exclusive      *)
(* event: the markets share the event row and the event-level pool row; the *)
(* calls pass every check, so each transaction takes all its locks          *)

ExclusiveMarkets == {"x1", "x2"}
ExclusiveOps == {"buy", "sell", "resolve_and_settle_market", "resolve_and_settle_market_partial"}

ExclusiveEventRow == Row("event", "ex", "")
ExclusivePoolRow == Row("pool", "xp", "")

\* the statement that follows the one at step in the transaction of op:
\* execute_buy / execute_sell lock market, event, pool, balance, position
\* (execution.py 136-150, 66-102, 457, 462); a settlement locks market, pool, the
\* winners' balances and positions (settlement.py 210, 398, 443, 463) and then the
\* event row, by Event.objects.filter(...).update (settlement.py 536) or by
\* _sync_event_status_for_partial (settlement.py 120, 712)
ExclusiveAfter(op, step) ==
    IF op \in {"buy", "sell"}
    THEN CASE step = "x_market" -> "x_event"
           [] step = "x_event" -> "x_pool"
           [] step = "x_pool" -> "x_balance"
           [] step = "x_balance" -> "x_position"
           [] OTHER -> "x_commit"
    ELSE CASE step = "x_market" -> "x_pool"
           [] step = "x_pool" -> "x_balance"
           [] step = "x_balance" -> "x_position"
           [] step = "x_position" -> "x_event"
           [] OTHER -> "x_commit"

\* the row the statement at p's step locks
ExclusiveWants(p) ==
    CASE pc[p] = "x_event" -> {ExclusiveEventRow}
      [] pc[p] = "x_pool" -> {ExclusivePoolRow}
      [] pc[p] = "x_balance" -> {Row("balance", "u1", DEFAULT_TOKEN)}
      [] pc[p] = "x_position" -> {Row("position", "u1", call[p].market)}
      [] OTHER -> {}

\* transaction.atomic opens and the market row is locked
exclusive_lock_market(p) ==
    /\ pc[p] = "idle"
    /\ \E op \in ExclusiveOps, m \in ExclusiveMarkets :
         /\ Free(p, {Row("market", m, "")})
         /\ call' = [call EXCEPT ![p] = [NoCall EXCEPT !.op = op, !.user = "u1",
                                                      !.market = m]]
         /\ held' = [held EXCEPT ![p] = {Row("market", m, "")}]
         /\ pc' = [pc EXCEPT ![p] = ExclusiveAfter(op, "x_market")]
    /\ UNCHANGED <<db, w, loc, res, paid, clock, quote_args, quoted, amm_payload,
                   amm_pools, funded, ens, b_calls, grp, cch, stl, dep, fin>>

\* the next select_for_update (or UPDATE) of the transaction is granted its row
exclusive_lock_row(p) ==
    /\ ExclusiveWants(p) # {}
    /\ Free(p, ExclusiveWants(p))
    /\ held' = [held EXCEPT ![p] = @ \cup ExclusiveWants(p)]
    /\ pc' = [pc EXCEPT ![p] = ExclusiveAfter(call[p].op, pc[p])]
    /\ UNCHANGED <<db, w, call, loc, res, paid, clock, quote_args, quoted, amm_payload,
                   amm_pools, funded, ens, b_calls, grp, cch, stl, dep, fin>>

\* the call returns, the transaction commits and its locks are released
exclusive_commit(p) ==
    /\ pc[p] = "x_commit"
    /\ held' = [held EXCEPT ![p] = {}]
    /\ pc' = [pc EXCEPT ![p] = "idle"]
    /\ call' = [call EXCEPT ![p] = NoCall]
    /\ res' = [res EXCEPT ![p] = [NoRes EXCEPT !.code = "OK"]]
    /\ UNCHANGED <<db, w, loc, paid, clock, quote_args, quoted, amm_payload,
                   amm_pools, funded, ens, b_calls, grp, cch, stl, dep, fin>>

NextExclusive ==
    \E p \in Procs : exclusive_lock_market(p) \/ exclusive_lock_row(p) \/ exclusive_commit(p)

SpecExclusive == Init /\ [][NextExclusive]_vars

-----------------------------------------------------------------------------
(* finance/scheduler.py: the loop that settles the windows that are due     *)

MaxFinanceClock == 3
MaxStops == 1

\* the pool ensure_pool_initialized(market, amm_params=normalize_amm_params()) creates
FinancePool == normalize_amm_params(<<>>, <<>>, NoneNum)

FinanceState(row) ==
    [b |-> FinancePool.b, fee_bps |-> FinancePool.fee_bps,
     option_ids |-> <<"o0", "o1">>, option_indexes |-> <<0, 1>>,
     q |-> row.q, no_to_yes |-> <<>>, is_exclusive |-> FALSE]

\* time passes
fin_tick ==
    /\ fin.now < MaxFinanceClock
    /\ fin' = [fin EXCEPT !.now = @ + 1]
    /\ UNCHANGED <<db, w, held, pc, call, loc, res, paid, clock, quote_args, quoted,
                   amm_payload, amm_pools, funded, ens, b_calls, grp, cch, stl, dep>>

\* the price stream stores the latest price of a symbol (PriceStore)
fin_price ==
    /\ \E sym \in DOMAIN fin.price, v \in {1, 3} :
         /\ fin.price[sym] # v
         /\ fin' = [fin EXCEPT !.price[sym] = v]
    /\ UNCHANGED <<db, w, held, pc, call, loc, res, paid, clock, quote_args, quoted,
                   amm_payload, amm_pools, funded, ens, b_calls, grp, cch, stl, dep>>

\* a buy on a window's market as it leaves the market's pool and positions
FinanceBought(f, wn, k, amount_in, quote) ==
    IF quote.err \/ quote.shares <= 0 THEN f
    ELSE [f EXCEPT !.win[wn].q[k] = @ + quote.shares,
                   !.win[wn].shares[k] = @ + quote.shares,
                   !.win[wn].pool_cash = @ + amount_in]

\* execute_buy of 1 on the option of index k - 1 of a window's market, before the
\* trading deadline the scheduler gave the market (trading_deadline = window_end)
fin_buy ==
    /\ \E wn \in Windows, k \in {1, 2} :
         /\ fin.now < WindowEnd(wn)
         /\ fin.win[wn].status = "active"
         /\ fin.win[wn].shares[k] = 0
         /\ fin' = FinanceBought(fin, wn, k, FX,
                       quote_from_state(FinanceState(fin.win[wn]), <<"o0", "o1">>[k],
                                        NoneNum, "buy", FX, NoneNum, FALSE))
    /\ UNCHANGED <<db, w, held, pc, call, loc, res, paid, clock, quote_args, quoted,
                   amm_payload, amm_pools, funded, ens, b_calls, grp, cch, stl, dep>>

\* _due_windows(now): the windows that have ended, have no close_price and whose
\* market is neither resolved nor canceled
DueWindows(f) ==
    LET IsDue(wn) == /\ WindowEnd(wn) <= f.now
                     /\ f.win[wn].close_price = NoneNum
                     /\ f.win[wn].status \notin {"resolved", "canceled"}
    IN  SelectSeq(<<"fw1", "fw2">>, IsDue)

\* the loop wakes up and reads the due windows
fin_due_windows ==
    /\ fin.pc = "sleep"
    /\ DueWindows(fin) # <<>>
    /\ fin' = [fin EXCEPT !.due = DueWindows(fin), !.pc = "row"]
    /\ UNCHANGED <<db, w, held, pc, call, loc, res, paid, clock, quote_args, quoted,
                   amm_payload, amm_pools, funded, ens, b_calls, grp, cch, stl, dep>>

\* the loop goes on to the next row, or sleeps after the last
NextRow(f) ==
    [f EXCEPT !.due = Tail(f.due),
              !.pc = IF Len(f.due) > 1 THEN "row" ELSE "sleep",
              !.row_price = NoneNum]

\* _settle_due reads the latest price of the row's symbol; without one the row is
\* skipped
fin_row ==
    /\ fin.pc = "row"
    /\ fin' = IF fin.price[WindowSymbol(Head(fin.due))] = NoneNum THEN NextRow(fin)
              ELSE [fin EXCEPT !.pc = "settle_window",
                               !.row_price = fin.price[WindowSymbol(Head(fin.due))]]
    /\ UNCHANGED <<db, w, held, pc, call, loc, res, paid, clock, quote_args, quoted,
                   amm_payload, amm_pools, funded, ens, b_calls, grp, cch, stl, dep>>

\* prev_price = window.prev_close_price or close_price; Up (index 1) wins when
\* close_price >= prev_price
WinningIndex(row, close_price) ==
    IF close_price >= (IF row.prev_close_price = NoneNum THEN close_price
                       ELSE row.prev_close_price)
    THEN 1 ELSE 0

\* _ensure_finance_settlement_funding: collateral is raised by the shortfall
FundedForSettlement(row, winning_option_index) ==
    IF row.shares[winning_option_index + 1] - row.pool_cash - row.collateral_amount > 0
    THEN [row EXCEPT !.collateral_amount =
              @ + (row.shares[winning_option_index + 1] - row.pool_cash - row.collateral_amount)]
    ELSE row

\* _settle_window up to the commit of _ensure_finance_settlement_funding
fin_settle_window ==
    /\ fin.pc = "settle_window"
    /\ fin' = IF fin.win[Head(fin.due)].close_price # NoneNum THEN NextRow(fin)
              ELSE IF fin.win[Head(fin.due)].status \in {"resolved", "canceled"}
              THEN NextRow(fin)
              ELSE [fin EXCEPT !.pc = "resolve",
                               !.win[Head(fin.due)] =
                                   FundedForSettlement(@, WinningIndex(@, fin.row_price))]
    /\ UNCHANGED <<db, w, held, pc, call, loc, res, paid, clock, quote_args, quoted,
                   amm_payload, amm_pools, funded, ens, b_calls, grp, cch, stl, dep>>

\* resolve_and_settle_market on a window's market: one transaction
FinanceSettled(f, wn, total_payout, fund) ==
    IF ~fund.ok THEN [NextRow(f) EXCEPT !.failures = @ + 1]
    ELSE [f EXCEPT !.pc = "record",
                   !.win[wn].status = "resolved",
                   !.win[wn].pool_cash = @ - fund.pool_cash_used,
                   !.win[wn].collateral_amount = @ - fund.collateral_used,
                   !.win[wn].paid = @ + total_payout,
                   !.win[wn].settlements = @ + 1]

\* _settle_window: resolve_and_settle_market; an exception is logged by _settle_due
fin_resolve_and_settle ==
    /\ fin.pc = "resolve"
    /\ fin' = FinanceSettled(fin, Head(fin.due),
                  fin.win[Head(fin.due)].shares[
                      WinningIndex(fin.win[Head(fin.due)], fin.row_price) + 1],
                  funding(fin.win[Head(fin.due)].pool_cash,
                          fin.win[Head(fin.due)].collateral_amount,
                          fin.win[Head(fin.due)].shares[
                              WinningIndex(fin.win[Head(fin.due)], fin.row_price) + 1]))
    /\ UNCHANGED <<db, w, held, pc, call, loc, res, paid, clock, quote_args, quoted,
                   amm_payload, amm_pools, funded, ens, b_calls, grp, cch, stl, dep>>

\* _settle_window: window.close_price is saved
fin_record ==
    /\ fin.pc = "record"
    /\ fin' = [NextRow(fin) EXCEPT !.win[Head(fin.due)].close_price = fin.row_price]
    /\ UNCHANGED <<db, w, held, pc, call, loc, res, paid, clock, quote_args, quoted,
                   amm_payload, amm_pools, funded, ens, b_calls, grp, cch, stl, dep>>

\* an attempt stops part-way: the step that was to come raises into the except of
\* _settle_due, or the task ends and the loop starts again
fin_stop ==
    /\ fin.pc \in {"settle_window", "resolve", "record"}
    /\ fin.stops < MaxStops
    /\ fin' = [fin EXCEPT !.pc = "sleep", !.due = <<>>, !.row_price = NoneNum,
                          !.stops = @ + 1]
    /\ UNCHANGED <<db, w, held, pc, call, loc, res, paid, clock, quote_args, quoted,
                   amm_payload, amm_pools, funded, ens, b_calls, grp, cch, stl, dep>>

NextFinance ==
    \/ fin_tick
    \/ fin_price
    \/ fin_buy
    \/ fin_due_windows
    \/ fin_row
    \/ fin_settle_window
    \/ fin_resolve_and_settle
    \/ fin_record
    \/ fin_stop

\* the loop of FinanceMarketScheduler.run never ends and sleeps a bounded time: each
\* of its steps is taken once it stays possible
FinanceFairness ==
    /\ WF_vars(fin_due_windows)
    /\ WF_vars(fin_row)
    /\ WF_vars(fin_settle_window)
    /\ WF_vars(fin_resolve_and_settle)
    /\ WF_vars(fin_record)

SpecFinance == Init /\ [][NextFinance]_vars /\ FinanceFairness

-----------------------------------------------------------------------------
(* Properties                                                              *)

\* process p takes a step that ends its call
Ends(p) == pc[p] # "done" /\ pc'[p] = "done"

\* the pool state and the quote execute_buy / execute_sell work with in this state
StateFor(c) == lock_pool_state(db, c.market)
BuyQuoteFor(c) ==
    trade_quote(c, StateFor(c), FindOption(c.market, c.option_id, c.option_index),
                "buy", c.amount_in, NoneNum)

BuyEffects(p) ==
    LET c == call[p]
        k == res'[p].option
        s == res'[p].shares
        bkey == <<c.user, DEFAULT_TOKEN>>
        pl == PoolFor(c.market)
    IN  /\ k = FindOption(c.market, c.option_id, c.option_index)
        /\ s = BuyQuoteFor(c).shares
        /\ s > 0
        /\ db'.balance[bkey].available_amount = db.balance[bkey].available_amount - c.amount_in
        /\ db'.pool[pl].pool_cash = db.pool[pl].pool_cash + c.amount_in
        /\ db'.position[<<c.user, k>>].exists
        /\ db'.position[<<c.user, k>>].shares = db.position[<<c.user, k>>].shares + s
        /\ db'.position[<<c.user, k>>].cost_basis
              = db.position[<<c.user, k>>].cost_basis + c.amount_in
        /\ db'.q[k] = db.q[k] + s
        /\ \A o \in Options \ {k} : db'.q[o] = db.q[o]

\* C1: a successful execute_buy of amount A on an option k that is not bought on the
\* NO side takes exactly A from the user's balance, adds exactly A to pool_cash, adds
\* the quoted shares_out to the user's position on k and A to its cost_basis, and
\* raises q of k by shares_out while every other q of the pool stays as it was.
C1_BuyEffects ==
    [][\A p \in Procs :
         (Ends(p) /\ call[p].op = "buy" /\ res'[p].code = "OK"
            /\ ~IsNoSide(StateFor(call[p]), res'[p].option))
         => BuyEffects(p)]_vars

\* a buy has succeeded and moved q of its option only
C1_Witness ==
    \E p \in Procs :
        /\ pc[p] = "done" /\ call[p].op = "buy" /\ res[p].code = "OK"
        /\ res[p].shares > 0
        /\ db.q[res[p].option] = res[p].shares
        /\ db.pool["pl1"].pool_cash = call[p].amount_in

SellQuoteFor(c) ==
    trade_quote(c, StateFor(c), FindOption(c.market, c.option_id, c.option_index), "sell",
                c.desired_amount_out,
                IF c.sell_all
                THEN db.position[<<c.user, FindOption(c.market, c.option_id, c.option_index)>>].shares
                ELSE c.shares)

SellEffects(p) ==
    LET c == call[p]
        k == res'[p].option
        S == res'[p].shares
        amount_out == res'[p].amount
        bkey == <<c.user, DEFAULT_TOKEN>>
        pl == PoolFor(c.market)
    IN  /\ k = FindOption(c.market, c.option_id, c.option_index)
        /\ S > 0
        /\ amount_out = SellQuoteFor(c).amount
        /\ S = shares_to_sell(db.position[<<c.user, k>>], SellQuoteFor(c))
        /\ db'.position[<<c.user, k>>].shares = db.position[<<c.user, k>>].shares - S
        /\ db'.balance[bkey].available_amount = db.balance[bkey].available_amount + amount_out
        /\ db'.pool[pl].pool_cash = db.pool[pl].pool_cash - amount_out
        /\ db'.q[k] = db.q[k] - S
        /\ \A o \in Options \ {k} : db'.q[o] = db.q[o]

\* C2: a successful execute_sell that is no dust clean-up and sells S shares of an
\* option k not sold on the NO side lowers the user's position by S, adds the net
\* amount_out to the user's balance, takes the same amount_out from pool_cash, and
\* lowers q of k by S while every other q stays as it was.
C2_SellEffects ==
    [][\A p \in Procs :
         (Ends(p) /\ call[p].op = "sell" /\ res'[p].code = "OK" /\ ~res'[p].dust_cleanup
            /\ ~IsNoSide(StateFor(call[p]), res'[p].option))
         => SellEffects(p)]_vars

\* a sell of part of a position has succeeded
C2_Witness ==
    \E p \in Procs :
        /\ pc[p] = "done" /\ call[p].op = "sell" /\ res[p].code = "OK"
        /\ ~res[p].dust_cleanup /\ ~call[p].sell_all
        /\ res[p].shares = call[p].shares /\ res[p].amount > 0
        /\ db.position[<<call[p].user, res[p].option>>].shares > 0

SettleOps == {"settle_market", "resolve_and_settle_market", "resolve_and_settle_market_partial"}

\* process p commits a settlement it has carried out itself
Settles(p) ==
    /\ Ends(p) /\ call[p].op \in SettleOps
    /\ res'[p].code = "OK" /\ ~res'[p].already_settled

\* the winning option a committed settlement has paid
PaidOption(m) == FindOption(m, NoneId, db'.market[m].resolved_option_index)

RECURSIVE SumOver(_, _)
SumOver(f, S) ==
    IF S = {} THEN 0
    ELSE LET x == CHOOSE y \in S : TRUE IN f[x] + SumOver(f, S \ {x})

\* shares > 0 held on option o by each user before the settlement commits
WinningShares(o) ==
    [u \in Users |-> IF db.position[<<u, o>>].exists /\ db.position[<<u, o>>].shares > 0
                     THEN db.position[<<u, o>>].shares ELSE 0]

Waterfall(p) ==
    LET m == call[p].market
        pool == db.pool[PoolFor(m)]
        after == db'.pool[PoolFor(m)]
        total == SumOver(WinningShares(PaidOption(m)), Users)
        r == res'[p]
    IN  /\ r.total_payout = total
        /\ r.pool_cash_used = Min2(pool.pool_cash, total)
        /\ r.collateral_used = total - r.pool_cash_used
        /\ r.collateral_used > 0 => r.pool_cash_used = pool.pool_cash
        /\ after.pool_cash = pool.pool_cash - r.pool_cash_used
        /\ after.collateral_amount = pool.collateral_amount - r.collateral_used
        /\ after.pool_cash >= 0 /\ after.collateral_amount >= 0

\* C3: in every successful settlement pool_cash_used = min(pool_cash, total_payout)
\* and collateral_used = total_payout - pool_cash_used, where total_payout is the sum
\* of the shares of the winning positions with shares > 0; collateral is drawn only
\* once pool cash is exhausted, and pool_cash and collateral_amount each go down by
\* exactly the amount used, never below zero.
C3_Waterfall == [][\A p \in Procs : Settles(p) => Waterfall(p)]_vars

\* a settlement has used up the pool cash and drawn on the collateral
C3_Witness ==
    \E p \in Procs :
        /\ pc[p] = "done" /\ call[p].op \in SettleOps /\ res[p].code = "OK"
        /\ ~res[p].already_settled
        /\ res[p].pool_cash_used > 0 /\ res[p].collateral_used > 0
        /\ db.pool["pl1"].pool_cash = 0
        /\ db.pool["pl1"].collateral_amount < InitDb.pool["pl1"].collateral_amount

Credits(p) ==
    LET m == call[p].market
        token == PoolRowStatic(PoolFor(m)).collateral_token
        won == WinningShares(PaidOption(m))
        credit == [u \in Users |-> db'.balance[<<u, token>>].available_amount
                                    - db.balance[<<u, token>>].available_amount]
    IN  /\ \A u \in Users : credit[u] = won[u]
        /\ \A r \in SettlementOf(db', m) : r.total_payout = SumOver(credit, Users)
        /\ SettlementOf(db', m) # {}
        /\ res'[p].total_payout = SumOver(credit, Users)

\* C4: a successful settlement credits every holder of a winning position with
\* exactly shares x 1 of the pool's collateral token and credits nobody else, and the
\* credits add up to the total_payout recorded in the settlement row.
C4_Credits == [][\A p \in Procs : Settles(p) => Credits(p)]_vars

\* a settlement has paid two winners holding different numbers of shares
C4_Witness ==
    \E p \in Procs :
        /\ pc[p] = "done" /\ call[p].op \in SettleOps /\ res[p].code = "OK"
        /\ ~res[p].already_settled
        /\ \E o \in Options :
             /\ paid[<<"u1", o>>] = 1 /\ paid[<<"u2", o>>] = 1
             /\ db.position[<<"u1", o>>].shares # db.position[<<"u2", o>>].shares
             /\ res[p].total_payout
                  = db.position[<<"u1", o>>].shares + db.position[<<"u2", o>>].shares

\* a settle_market call c finds the settlement an earlier call has committed under
\* the same settlement_tx_id
SettledUnderSameId(c) ==
    /\ c.op = "settle_market" /\ c.settlement_tx_id # NoneId
    /\ db.market[c.market].status = "resolved" /\ db.market[c.market].settled_at
    /\ \E r \in SettlementOf(db, c.market) : r.settlement_tx_id = c.settlement_tx_id

ReturnsFirstPayload(p) ==
    /\ pc'[p] = "done"
    /\ res'[p].code = "OK" /\ res'[p].already_settled
    /\ \E r \in SettlementOf(db, call'[p].market) :
         /\ res'[p].settlement_tx_id = r.settlement_tx_id
         /\ res'[p].total_payout = r.total_payout
         /\ res'[p].pool_cash_used = r.pool_cash_used
         /\ res'[p].collateral_used = r.collateral_used
    /\ db' = db /\ paid' = paid
    /\ \A k \in DOMAIN paid : paid[k] <= 1

\* C5: of two concurrent settle_market calls on one market with the same
\* settlement_tx_id, the one that gets the market row second finds the first one's
\* settlement committed; it returns already_settled = TRUE with the payload the first
\* call stored, credits nobody and leaves the pool alone, so every winner is credited
\* once and the pool is debited once.
C5_SecondCallIsCached ==
    [][\A p \in Procs :
         (pc[p] = "idle" /\ pc'[p] # "idle" /\ SettledUnderSameId(call'[p]))
         => ReturnsFirstPayload(p)]_vars

\* the second call has returned the payload of a settlement that paid a winner
C5_Witness ==
    \E p \in Procs :
        /\ pc[p] = "done" /\ call[p].op = "settle_market"
        /\ call[p].settlement_tx_id = "tx1"
        /\ res[p].code = "OK" /\ res[p].already_settled
        /\ res[p].settlement_tx_id = "tx1" /\ res[p].total_payout > 0
        /\ \E k \in DOMAIN paid : paid[k] = 1

\* C6: whatever resolve_market, settle_market, resolve_and_settle_market and
\* resolve_and_settle_market_partial calls are made on a market, with any
\* settlement_tx_id or none and with any winning option, the market has at most one
\* MarketSettlement row and no position is paid out more than once.
C6_SettledOnce ==
    /\ \A m \in Markets : Cardinality(SettlementOf(db, m)) <= 1
    /\ \A k \in DOMAIN paid : paid[k] <= 1

\* a settled market whose winner was paid is asked to resolve and settle for the
\* other option
C6_Witness ==
    \E p \in Procs :
        /\ pc[p] = "done" /\ call[p].op = "resolve_and_settle_market"
        /\ res[p].code = "OK" /\ res[p].already_settled
        /\ call[p].option_index # db.market["m1"].resolved_option_index
        /\ Cardinality(SettlementOf(db, "m1")) = 1
        /\ \E k \in DOMAIN paid : paid[k] = 1

\* the fields C7 names
Observed(d) ==
    [market |-> [m \in Markets |-> <<d.market[m].status, d.market[m].resolved_option_index,
                                     d.market[m].resolved_at>>],
     event |-> [e \in Events |-> d.event[e].status],
     balance |-> d.balance,
     pool |-> [pl \in Pools |-> <<d.pool[pl].pool_cash, d.pool[pl].collateral_amount,
                                  d.pool[pl].status>>]]

\* C7: when resolve_and_settle_market fails during settlement, the market's status,
\* resolved_option_index and resolved_at, the event's status, every balance and the
\* pool's pool_cash, collateral_amount and status are what they were before the call
\* (no other transaction commits while the call holds the market row).
C7_FailureChangesNothing ==
    [][\A p \in Procs :
         (Ends(p) /\ call'[p].op = "resolve_and_settle_market" /\ res'[p].code # "OK")
         => Observed(db') = Observed(db)]_vars

\* resolve_and_settle_market has failed for lack of funds after recording the winner
C7_Witness ==
    \E p \in Procs :
        /\ pc[p] = "done" /\ call[p].op = "resolve_and_settle_market"
        /\ res[p].code = "INSUFFICIENT_FUNDS"
        /\ db.market["m1"].status = "active"
        /\ db.market["m1"].resolved_option_index = NoneNum
        /\ ~db.market["m1"].resolved_at

\* markets are resolved through resolve_and_settle_market and
\* resolve_and_settle_market_partial only: resolve_market is never called
NextAtomic ==
    \/ tick
    \/ \E p \in Procs :
        \/ trade_lock_market(p)
        \/ trade_lock_event(p)
        \/ trade_lock_pool(p)
        \/ trade_lock_balance(p)
        \/ execute_buy(p)
        \/ execute_sell(p)
        \/ settle_market(p)
        \/ resolve_and_settle_market(p)
        \/ resolve_and_settle_market_partial(p)
        \/ settle_lock_pool(p)
        \/ settle_lock_balance(p)
        \/ settle_positions(p)
        \/ settle_event(p)
        \/ finish(p)

SpecAtomic == Init /\ [][NextAtomic]_vars

\* C8: when markets are resolved only through resolve_and_settle_market or
\* resolve_and_settle_market_partial, every committed state in which a market's status
\* is resolved has that market's settled_at set and a MarketSettlement row for it.
C8_ResolvedMeansSettled ==
    \A m \in Markets :
        db.market[m].status = "resolved"
        => db.market[m].settled_at /\ SettlementOf(db, m) # {}

\* a market has been resolved and its winner paid
C8_Witness ==
    /\ db.market["m1"].status = "resolved"
    /\ \E k \in DOMAIN paid : paid[k] = 1

\* what a settlement that is about to lock the pool will find
PayoutDue(p) ==
    SumOver(WinningShares(FindOption(call[p].market, NoneId,
                Visible(db, w[p]).market[call[p].market].resolved_option_index)), Users)

Underfunded(p) ==
    /\ pc[p] = "settle_pool" /\ pc'[p] # "settle_pool"
    /\ PayoutDue(p) > db.pool[PoolFor(call[p].market)].pool_cash
                      + db.pool[PoolFor(call[p].market)].collateral_amount

ReportsRemaining(p) ==
    LET pool == db.pool[PoolFor(call[p].market)]
    IN  /\ pc'[p] = "done"
        /\ res'[p].code = "INSUFFICIENT_FUNDS"
        /\ res'[p].need = PayoutDue(p) - Min2(pool.pool_cash, PayoutDue(p))
        /\ res'[p].available = pool.collateral_amount
        /\ res'[p].pool_cash = pool.pool_cash
        /\ res'[p].total_payout = PayoutDue(p)

\* C9 (amended): when total_payout exceeds pool_cash + collateral_amount, settlement
\* fails with INSUFFICIENT_FUNDS and the error reports what is still needed once pool
\* cash is used, total_payout - min(pool_cash, total_payout), next to the collateral
\* available, pool_cash and total_payout.
C9_ReportsRemaining == [][\A p \in Procs : Underfunded(p) => ReportsRemaining(p)]_vars

\* a settlement has failed for lack of funds with pool cash and collateral both positive
C9_Witness ==
    \E p \in Procs :
        /\ pc[p] = "done" /\ res[p].code = "INSUFFICIENT_FUNDS"
        /\ res[p].pool_cash > 0 /\ res[p].available > 0
        /\ res[p].total_payout > res[p].pool_cash + res[p].available

\* C9 as claimed: the INSUFFICIENT_FUNDS error reports the exact shortfall
\* total_payout - pool_cash - collateral_amount.
C9_ReportsShortfall ==
    \A p \in Procs :
        (pc[p] = "done" /\ res[p].code = "INSUFFICIENT_FUNDS")
        => res[p].need = res[p].total_payout - res[p].pool_cash - res[p].available

\* execute_buy is about to quote fewer shares than the min_shares_out it was given
QuotesTooFew(p) ==
    /\ pc[p] = "trade_position" /\ call[p].op = "buy" /\ pc'[p] # "trade_position"
    /\ call[p].min_shares_out # NoneNum
    /\ ~BuyQuoteFor(call[p]).err
    /\ BuyQuoteFor(call[p]).shares > 0
    /\ BuyQuoteFor(call[p]).shares < call[p].min_shares_out

\* C10: when execute_buy is given min_shares_out and the quoted shares_out is
\* smaller, the call fails with SLIPPAGE_PROTECTION and nothing persistent changes:
\* balance, position, q, pool_cash, order intents and trades are as before, and no
\* balance or position row created while locking remains.
C10_SlippageChangesNothing ==
    [][\A p \in Procs :
         QuotesTooFew(p)
         => pc'[p] = "done" /\ res'[p].code = "SLIPPAGE_PROTECTION" /\ db' = db]_vars

\* a first buy of an option has failed on min_shares_out: the position row that
\* was created for it under the lock is gone
C10_Witness ==
    \E p \in Procs :
        /\ pc[p] = "done" /\ call[p].op = "buy" /\ res[p].code = "SLIPPAGE_PROTECTION"
        /\ call[p].min_shares_out # NoneNum
        /\ ~db.position[<<call[p].user,
                           FindOption(call[p].market, call[p].option_id,
                                      call[p].option_index)>>].exists
        /\ db.intents = <<>> /\ db.trades = <<>>

-----------------------------------------------------------------------------
\* the market of call c may be traded at the time its market row was locked
TradableWhenLocked(c) ==
    LET m == c.market
        e == MarketEvent(m)
    IN  /\ db.market[m].status = "active"
        /\ ~MarketIsHidden(m)
        /\ e # NoneId => (db.event[e].status = "active" /\ ~EventIsHidden(e))
        /\ ~DeadlinePassed(m, c.locked_at)

\* C11: no execute_buy or execute_sell commits a change on a market that, when its
\* market row was locked, was hidden, not active, at or past its trading deadline,
\* or whose event was hidden or not active (the rows stay as they were locked until
\* the call commits); so no trade succeeds once the market has been resolved.
C11_TradesOnlyWhileOpen ==
    [][\A p \in Procs :
         (Ends(p) /\ call[p].op \in {"buy", "sell"} /\ db' # db)
         => TradableWhenLocked(call[p])]_vars

-----------------------------------------------------------------------------
\* the rows the next statement of p's transaction locks
Wants(p) ==
    LET c == call[p]
        m == c.market
        e == MarketEvent(m)
        d == Visible(db, w[p])
        pl == PoolFor(m)
        option == FindOption(m, c.option_id, c.option_index)
        event_rows == IF e = NoneId THEN {} ELSE {Row("event", e, "")}
    IN  CASE pc[p] = "trade_event" -> event_rows \cup {Row("option", option, "")}
          [] pc[p] = "trade_pool" ->
                {Row("pool", pl, "")}
                \cup {Row("state", PoolStates(pl)[i], "") : i \in 1..Len(PoolStates(pl))}
          [] pc[p] = "trade_balance" -> {Row("balance", c.user, DEFAULT_TOKEN)}
          [] pc[p] = "trade_position" -> {Row("position", c.user, option)}
          [] pc[p] = "resolve_event" -> event_rows
          [] pc[p] = "settle_pool" -> {Row("pool", pl, "")}
          [] pc[p] = "settle_balance" ->
                {Row("balance", Head(loc[p].user_ids), PoolRowStatic(pl).collateral_token)}
          [] pc[p] = "settle_positions" ->
                {Row("position", u, WinningOption(d, m)) : u \in WinningUsers(d, m)}
          [] pc[p] = "settle_event" -> event_rows
          [] OTHER -> {}

\* p waits for a row that o holds
WaitsFor(p, o) == p # o /\ Wants(p) \cap held[o] # {}

\* C12: whatever the interleaving of trades, settlements and resolutions on the
\* market, no two transactions each wait for a row lock the other holds.
C12_NoDeadlock == \A p, o \in Procs : ~(WaitsFor(p, o) /\ WaitsFor(o, p))

\* a settlement holds the market, the pool and a winner's balance row and is about
\* to lock the winning positions, after two trades on the market have committed
C12_Witness ==
    \E p \in Procs :
        /\ pc[p] = "settle_positions"
        /\ Wants(p) # {}
        /\ \E u \in Users : Row("balance", u, DEFAULT_TOKEN) \in held[p]
        /\ Row("market", "m1", "") \in held[p]
        /\ Len(db.trades) = 2

\* every step inside a transaction locks the rows Wants names, and only those
LocksWhatItWants ==
    [][\A p \in Procs :
         (pc[p] \notin {"idle", "done"} /\ pc'[p] \notin {"idle", "done"} /\ pc'[p] # pc[p])
         => held'[p] = held[p] \cup Wants(p)]_vars

-----------------------------------------------------------------------------
\* an order of the same user, side and client_nonce as call c has been executed
AlreadySubmitted(c) ==
    /\ c.client_nonce # NoneId
    /\ \E i \in 1..Len(db.intents) :
         /\ db.intents[i].user = c.user
         /\ db.intents[i].side = c.op
         /\ db.intents[i].client_nonce = c.client_nonce

\* C13: a trade re-submitted with the client_nonce of an executed order of the same
\* user and side does not debit or credit the balance, change a position or move the
\* pool a second time.
C13_NonceAppliedOnce ==
    [][\A p \in Procs :
         (Ends(p) /\ call[p].op \in {"buy", "sell"} /\ AlreadySubmitted(call[p]))
         => /\ db'.balance = db.balance
            /\ db'.position = db.position
            /\ db'.q = db.q
            /\ db'.pool = db.pool]_vars

-----------------------------------------------------------------------------
\* while a trade holds the pool rows, the q and the pool row it read are still the
\* committed ones: no other trade has moved them
ObservedStaysCurrent ==
    \A p \in Procs :
        pc[p] \in {"trade_balance", "trade_position"}
        => /\ \A o \in DOMAIN loc[p].q : loc[p].q[o] = db.q[o]
           /\ \A pl \in DOMAIN loc[p].pool : loc[p].pool[pl] = db.pool[pl]

\* what the committed trades have added to q of option o and to pool_cash
TradedShares(o) ==
    SumOver([i \in 1..Len(db.trades) |->
                IF db.trades[i].option # o THEN 0
                ELSE IF db.trades[i].side = "buy" THEN db.trades[i].shares
                ELSE 0 - db.trades[i].shares],
            1..Len(db.trades))
TradedCash ==
    SumOver([i \in 1..Len(db.trades) |->
                IF db.trades[i].side = "buy" THEN db.trades[i].amount_in
                ELSE 0 - db.trades[i].amount_in],
            1..Len(db.trades))

-----------------------------------------------------------------------------
\* the step adds one confirmed order intent and one trade that carries its id
OneIntentOneTrade ==
    /\ Len(db'.intents) = Len(db.intents) + 1
    /\ Len(db'.trades) = Len(db.trades) + 1
    /\ SubSeq(db'.intents, 1, Len(db.intents)) = db.intents
    /\ SubSeq(db'.trades, 1, Len(db.trades)) = db.trades
    /\ db'.intents[Len(db'.intents)].status = "confirmed"
    /\ db'.trades[Len(db'.trades)].tx_hash
         = OffchainTxHash(db'.intents[Len(db'.intents)].id)

\* C15: every execute_buy or execute_sell that returns a receipt, a sell_all dust
\* clean-up included, has created exactly one OrderIntent with status confirmed and
\* exactly one Trade whose tx_hash is derived from that intent's id; a failed call
\* creates neither.
C15_ReceiptHasAuditRows ==
    [][\A p \in Procs :
         (Ends(p) /\ call[p].op \in {"buy", "sell"})
         => IF res'[p].code = "OK" THEN OneIntentOneTrade
            ELSE db'.intents = db.intents /\ db'.trades = db.trades]_vars

-----------------------------------------------------------------------------
\* process p ends a sell_all that got as far as reading the position
EndsSellAll(p) ==
    /\ Ends(p) /\ pc[p] = "trade_position"
    /\ call[p].op = "sell" /\ call[p].sell_all

\* the position was cleaned up without the AMM
DustCleanedUp(p, pkey) ==
    /\ res'[p].code = "OK" /\ res'[p].dust_cleanup /\ res'[p].amount = 0
    /\ db'.position[pkey].shares = 0 /\ db'.position[pkey].cost_basis = 0
    /\ db'.balance = db.balance
    /\ db'.q = db.q
    /\ db'.pool = db.pool

\* C16: execute_sell with sell_all on a position of more than 0 and at most 0.1
\* shares skips the AMM: shares and cost_basis become 0, the receipt has
\* dust_cleanup = true and amount_out = 0, and balance, q and pool_cash stay as they
\* were; on a position above 0.1 shares it is a normal AMM sell of the position.
C16_DustCleanup ==
    [][\A p \in Procs :
         EndsSellAll(p)
         => LET c == call[p]
                pkey == <<c.user, FindOption(c.market, c.option_id, c.option_index)>>
                held_shares == db.position[pkey].shares
            IN  /\ (held_shares > 0 /\ 10 * held_shares <= FX) => DustCleanedUp(p, pkey)
                /\ 10 * held_shares > FX
                   => /\ ~res'[p].dust_cleanup
                      /\ res'[p].code = "OK" => SellEffects(p)]_vars

\* a sell_all has cleaned up a position of less than 0.1 shares
C16_Witness ==
    \E p \in Procs :
        /\ pc[p] = "done" /\ call[p].op = "sell" /\ call[p].sell_all
        /\ res[p].code = "OK" /\ res[p].dust_cleanup
        /\ res[p].shares > 0 /\ 10 * res[p].shares <= FX
        /\ db.position[<<call[p].user, res[p].option>>].shares = 0
        /\ db.q[res[p].option] = res[p].shares

-----------------------------------------------------------------------------
\* a buy quote has been returned
BuyQuoted == quote_args.answered /\ quote_args.side = "buy" /\ ~quoted.err

\* C17: for every buy quote, whether the amount or the shares were given, the fee is
\* at least amount_in * fee_bps / 10000 less one unit of money_quant, and the fee
\* and the net amount that goes to the AMM add up to amount_in.
C17_BuyFee ==
    BuyQuoted
    => /\ quoted.fee_amount * BPS >= quoted.amount * quote_args.st.fee_bps - MONEY_QUANT * BPS
       /\ quoted.fee_amount + quoted.net = quoted.amount

\* a buy for a given number of shares has been quoted with a fee
C17_Witness ==
    /\ BuyQuoted
    /\ quote_args.shares # NoneNum
    /\ quote_args.st.fee_bps = 200
    /\ quoted.fee_amount > 0 /\ quoted.net > 0

-----------------------------------------------------------------------------
\* every entry of a basis-point vector is within [0, 10000]
BpsInRange(bps) == \A i \in 1..Len(bps) : 0 <= bps[i] /\ bps[i] <= BPS

\* each probability is within [0, 1], and the quote's vectors within [0, 10000]
ProbabilitiesInRange ==
    LET p == prices(quote_args.st.q, quote_args.st.b)
    IN  /\ \A i \in 1..Len(p) : 0 <= p[i] /\ p[i] <= FX
        /\ (quote_args.answered /\ ~quoted.err)
           => BpsInRange(quoted.pre_prob_bps) /\ BpsInRange(quoted.post_prob_bps)

StoredAsFunded(pool) ==
    /\ pool.collateral_amount = pool.initial_funding
    /\ Abs(MulFx(pool.b, LnFx(pool.num_outcomes * FX)) - pool.initial_funding) <= 2

\* C20: a pool created from AMM parameters that carry initial_funding_amount F, by
\* create_event or by a direct ensure_pool_initialized call, is stored with
\* collateral_amount = F and with b derived from F and its outcome count N
C20_FundedPoolStored ==
    \A k \in PoolKeys :
        (amm_pools[k].exists /\ amm_pools[k].initial_funding # NoneNum)
            => StoredAsFunded(amm_pools[k])

\* the direct call alone stores the funded pool as C20 says
DirectCallStoresFunding ==
    amm_payload.path = "ensure_pool_initialized" => C20_FundedPoolStored

\* C18: a pool created with initial funding F, with b derived from F and N, never
\* pays more than F of collateral over the settlements of its event, and no settlement
\* fails with INSUFFICIENT_FUNDS
C18_LossCappedAtFunding ==
    funded.N > 0
        => /\ funded.collateral_used <= funded.initial_funding
           /\ funded.code # "INSUFFICIENT_FUNDS"

\* without No-side buys the cap holds: a pool of two outcomes, or Yes positions only
FundedWithoutOverpaidNo ==
    (funded.N = 2 \/ \A i \in 1..funded.N : funded.no[i] = 0)
        => C18_LossCappedAtFunding

\* an ensure_pool_initialized step (a trade leaves the calls as they are)
EnsureStep == ens'.tx # ens.tx

\* C21: after any number of sequential or concurrent ensure_pool_initialized calls
\* for a market or exclusive event there is at most one pool row for it, and exactly
\* one once a call has committed; no call overwrites the parameters of an existing
\* pool row; each option has at most one option-state row, and every option has one
\* once a call has committed; the q of an existing option-state row is not reset.
C21_EnsureIdempotent ==
    [][ /\ Cardinality(PoolRowsOf(ens'.pools, ens.key)) <= 1
        /\ \A i \in 1..Len(ens.pools) : i <= Len(ens'.pools) /\ ens'.pools[i] = ens.pools[i]
        /\ \A r1, r2 \in ens'.states : r1.option = r2.option => r1 = r2
        /\ EnsureStep => ens.states \subseteq ens'.states
        /\ (\E p \in Procs : ens.tx[p].pc = "commit" /\ ens'.tx[p].pc = "idle")
              => /\ Cardinality(PoolRowsOf(ens'.pools, ens.key)) = 1
                 /\ WithState(ens'.states) = EnsureOptionIds(ens.key)
      ]_vars

\* two calls ran concurrently: one has committed the pool it created while the other,
\* which had found no pool, has met the unique constraint and backfills; a traded
\* option state exists
C21_Witness ==
    /\ Len(ens.pools) = 1
    /\ ens.pools[1].row.initial_funding # NoneNum
    /\ \E p \in Procs : ens.tx[p].pc = "commit" /\ ens.tx[p].pool_ins = <<>>
                        /\ ens.tx[p].params.b # ens.pools[1].row.b
    /\ \E r \in ens.states : r.q = FX

\* the statuses resolve_market's documentation refuses
NotResolvable == {"draft", "pending", "resolved", "canceled"}

\* C22: a resolve_market call on a market whose status is draft, pending, resolved
\* or canceled leaves the market's resolved_option_index, resolved_at and status
\* as they were.
C22_ResolveOnlyFromOpen ==
    [][ \A p \in Procs :
          ( /\ call[p].op = "resolve_market"
            /\ pc[p] \in {"idle", "resolve_event"} /\ pc'[p] = "done"
            /\ db.market[call'[p].market].status \in NotResolvable )
          => LET m == call'[p].market
             IN  /\ db'.market[m].resolved_option_index = db.market[m].resolved_option_index
                 /\ db'.market[m].resolved_at = db.market[m].resolved_at
                 /\ db'.market[m].status = db.market[m].status
      ]_vars

Returned == {n \in DOMAIN b_calls.out : ~b_calls.out[n].raised}

\* invalid inputs are rejected, and b, rounded to the precision, is never negative
\* and never grows with the number of outcomes
ComputeBNeverIncreases ==
    /\ \A n \in DOMAIN b_calls.out :
         b_calls.out[n].raised <=> (b_calls.funding_amount <= 0 \/ n < 2)
    /\ \A n \in Returned : b_calls.out[n].b >= 0
    /\ \A n1, n2 \in Returned : n1 < n2 => b_calls.out[n1].b >= b_calls.out[n2].b

\* C24: compute_b_from_funding rejects funding_amount <= 0 and num_outcomes < 2
\* with AmmSetupError, and for valid inputs returns a positive b that is strictly
\* decreasing in the number of outcomes for a fixed funding amount.
C24_ComputeB ==
    /\ \A n \in DOMAIN b_calls.out :
         b_calls.out[n].raised <=> (b_calls.funding_amount <= 0 \/ n < 2)
    /\ \A n \in Returned : b_calls.out[n].b > 0
    /\ \A n1, n2 \in Returned : n1 < n2 => b_calls.out[n1].b > b_calls.out[n2].b

\* a successful No-side buy on market i of the funded exclusive event
NoBuyStep(i) ==
    /\ funded'.code = "OK" /\ funded'.trades = funded.trades + 1
    /\ funded'.no[i] > funded.no[i]

\* the buy's amount_in less its fee
NoBuyNet(f, g) == (f.balance - g.balance) - fee_up(f.balance - g.balance, f.fee_bps)

\* C25: a successful NO-side execute_buy on market i of an exclusive event leaves the
\* q of i's YES outcome unchanged, raises the q of every other outcome j by its own
\* delta_j of no_buy_deltas, and adds shares_out, the sum of the deltas quantized
\* down, to the buyer's NO position on i; with two markets at equal probabilities
\* the whole delta goes to the other market's YES outcome, whose probability rises
\* while i's YES probability falls.
C25_NoBuySpreadsOverOthers ==
    [][ \A i \in 1..funded.N :
          NoBuyStep(i) =>
            LET d == [j \in 1..funded.N |-> funded'.q[j] - funded.q[j]]
                nb == compute_no_buy_deltas(FundedState(funded), i, NoBuyNet(funded, funded'))
            IN  /\ d[i] = 0
                /\ \A j \in 1..funded.N : j # i => d[j] > 0
                /\ nb.ok /\ d = nb.deltas
                /\ funded'.no[i] - funded.no[i] = quantize_shares(SeqSum(d))
                /\ funded'.yes = funded.yes
                /\ (funded.N = 2 /\ funded.q[1] = funded.q[2]) =>
                      LET o == 3 - i
                      IN  /\ d[o] = SeqSum(d)
                          /\ prices(funded'.q, funded.b)[o] > prices(funded.q, funded.b)[o]
                          /\ prices(funded'.q, funded.b)[i] < prices(funded.q, funded.b)[i]
      ]_vars

\* after a Yes buy on the first of three markets, a No buy on the second has raised
\* the q of the first and the third by different deltas
C25_Witness ==
    /\ funded.N = 3 /\ funded.code = "OK" /\ funded.trades = 2
    /\ funded.no[2] > 0 /\ funded.yes[1] > 0
    /\ funded.q[2] = 0 /\ funded.q[3] > 0
    /\ funded.q[1] - funded.yes[1] > 0
    /\ funded.q[1] - funded.yes[1] # funded.q[3]

\* the stored rows of the event: markets, event, pools, balance and positions
GroupRows(g) == <<g.market, g.event, g.pool, g.balance, g.pos>>

\* a resolve_and_settle_market_partial call has returned
PartialStep == grp'.calls = grp.calls + 1 /\ grp'.op = "partial"

\* C26: resolve_and_settle_market_partial on a market of an exclusive event with a
\* winning option that is not the NO side fails with INVALID_PARTIAL_OPTION and
\* leaves market, event, pool, balances and positions unchanged.
C26_ExclusivePartialNeedsNo ==
    [][ (PartialStep /\ grp.group_rule = "exclusive" /\ grp'.side # "no")
          => /\ grp'.code = "INVALID_PARTIAL_OPTION"
             /\ GroupRows(grp') = GroupRows(grp)
      ]_vars

\* the YES option of the first market, on which the user holds shares, was refused
\* after a sibling had been settled NO
C26_Witness ==
    /\ grp.group_rule = "exclusive" /\ grp.op = "partial" /\ grp.side = "yes"
    /\ grp.target = 1 /\ grp.code = "INVALID_PARTIAL_OPTION"
    /\ grp.market[1].status = "active" /\ grp.pos[1].yes > 0
    /\ grp.market[2].status = "resolved" /\ grp.market[2].settled

LastPartialResolvesEvent ==
    /\ grp.group_rule = "exclusive" /\ grp.op = "partial" /\ grp.code = "OK"
    /\ Unresolved(grp) = {} /\ grp.event.status = "resolved"
    /\ \E i \in 1..Len(grp.market) : grp.market[i].status = "canceled"
    /\ grp.pool[1].status = "active"

\* C28: the cache is invalidated for a trade only after the trade's transaction has
\* committed, so a reader that reloads and re-caches the pool state after the
\* invalidation caches the state with that trade; a trade that rolls back
\* invalidates nothing.
C28_InvalidateAfterCommit ==
    [][ /\ cch'.invalidations > cch.invalidations => cch'.invalidations <= cch.q
        /\ (cch.reader.pc = "loaded" /\ cch'.reader.pc = "idle")
              => cch'.cached >= cch.reader.since
        /\ (\E p \in Procs : cch.tx[p] = "locked" /\ cch'.tx[p] = "idle")
              => (cch'.cached = cch.cached /\ cch'.invalidations = cch.invalidations)
      ]_vars

\* the state a reader cached after an invalidation lacks the trade that invalidated
StaleAfterInvalidation ==
    /\ cch.stored.since # NoneNum /\ cch.cached # NoneNum
    /\ \A p \in Procs : cch.tx[p] = "idle"
    /\ cch.stored.since = cch.q /\ cch.cached < cch.q

\* a settlement waits for a balance row
SettlementWaitsFor(p, o) ==
    /\ stl.tx[p].pc = "balances" /\ stl.tx[p].user_ids # <<>>
    /\ Head(stl.tx[p].user_ids) \in stl.tx[o].locked

Ascending(user_ids) ==
    \A i, j \in 1..Len(user_ids) : i < j => user_ids[i] < user_ids[j]

\* C29: a settlement locks the balance rows of its distinct winning users in
\* ascending user-id order, so two settlements of different markets that share
\* winners take those locks in the same order and never wait for each other.
C29_BalanceLocksAscending ==
    /\ \A p \in Procs : Ascending(stl.tx[p].user_ids)
    /\ ~(SettlementWaitsFor("p1", "p2") /\ SettlementWaitsFor("p2", "p1"))

\* the two settlements hold one shared winner's balance row each and wait for the
\* other's
SettlementsDeadlocked ==
    /\ SettlementWaitsFor("p1", "p2") /\ SettlementWaitsFor("p2", "p1")
    /\ stl.winners["p1"] = stl.winners["p2"]

\* a successful No-side sell on market i of the funded exclusive event
NoSellStep(i) ==
    /\ funded'.code = "OK" /\ funded'.trades = funded.trades + 1
    /\ funded'.no[i] < funded.no[i]

\* C30: every successful NO-side execute_sell in an exclusive event, in each sell
\* mode (shares, desired_amount_out, sell_all), leaves the q of the target market's
\* YES outcome unchanged and only decreases the q of the other outcomes, the
\* decreases summing to the shares removed from the seller's NO position (up to one
\* unit of rounding per outcome).
C30_NoSellSpreadsOverOthers ==
    [][ \A i \in 1..funded.N :
          NoSellStep(i) =>
            LET d == [j \in 1..funded.N |-> funded.q[j] - funded'.q[j]]
                removed == funded.no[i] - funded'.no[i]
            IN  /\ d[i] = 0
                /\ \A j \in 1..funded.N : d[j] >= 0
                /\ SeqSum(d) - removed <= funded.N
                /\ removed - SeqSum(d) <= funded.N
      ]_vars

\* a NO position was sold for a desired amount and the q of its own market's YES
\* outcome went down
NoSellHitTarget ==
    \E i \in 1..funded.N :
        /\ funded.code = "OK" /\ funded.trades = 2
        /\ funded.yes[i] = 0 /\ funded.no[i] > 0
        /\ funded.q[i] < 0

\* a successful Yes-side buy on market i of the funded exclusive event
YesBuyStep(i) ==
    /\ funded'.code = "OK" /\ funded'.trades = funded.trades + 1
    /\ funded'.yes[i] > funded.yes[i]

\* C31: a buy that names its option by option_index is quoted against and applied
\* to the same pool outcome, with the same shares and amounts, as the same buy naming
\* the option by its option_id: every successful buy on the Yes option of market i
\* of an exclusive event leaves the state the buy by option_id of the same amount
\* leaves.
C31_IndexSameAsId ==
    [][ \A i \in 1..funded.N :
          YesBuyStep(i) =>
            funded' = FundedBought(funded, i, FALSE, funded.balance - funded'.balance,
                          quote_from_state(FundedState(funded), YesOption(i), NoneNum, "buy",
                                           funded.balance - funded'.balance, NoneNum, FALSE))
      ]_vars

\* p waits for a row that o holds, in the exclusive event
ExclusiveWaitsFor(p, o) == p # o /\ ExclusiveWants(p) \cap held[o] # {}

\* C32: trades and settlements running concurrently on different markets of the
\* same exclusive event never deadlock: no two transactions each wait for a row
\* lock the other holds.
C32_ExclusiveNoDeadlock ==
    \A p, o \in Procs : ~(ExclusiveWaitsFor(p, o) /\ ExclusiveWaitsFor(o, p))

\* a trade on one market holds the event row and waits for the pool row, which a
\* settlement of the other market holds while it waits for the event row
TradeAndSettlementDeadlocked ==
    \E p, o \in Procs :
        /\ call[p].op = "buy" /\ call[o].op = "resolve_and_settle_market_partial"
        /\ call[p].market # call[o].market
        /\ pc[p] = "x_pool" /\ ExclusiveEventRow \in held[p]
        /\ pc[o] = "x_event" /\ ExclusivePoolRow \in held[o]

\* a successful Yes-side sell on market i of the funded event
YesSellStep(i) ==
    /\ funded'.code = "OK" /\ funded'.trades = funded.trades + 1
    /\ funded'.yes[i] < funded.yes[i]

\* C33: a sell whose shares exceed the position by 0.01 or more fails with
\* INSUFFICIENT_SHARES and changes nothing; a successful sell never takes more than
\* the position, position shares are never negative, and the amount_out credited to
\* the seller and taken from pool_cash does not exceed the quoted proceeds of the
\* shares actually removed from the position.
C33_SellWithinPosition ==
    [][ /\ funded'.code = "INSUFFICIENT_SHARES" =>
              funded' = [funded EXCEPT !.code = "INSUFFICIENT_SHARES"]
        /\ \A i \in 1..funded.N :
              /\ funded'.yes[i] >= 0 /\ funded'.no[i] >= 0
              /\ YesSellStep(i) =>
                   /\ funded.pool_cash - funded'.pool_cash = funded'.balance - funded.balance
                   /\ funded'.balance - funded.balance <=
                        quote_from_state(FundedState(funded), YesOption(i), NoneNum, "sell",
                                         NoneNum, funded.yes[i] - funded'.yes[i], FALSE).amount
      ]_vars

\* the call names a wallet that is not its user's
ForeignWallet(c) ==
    c.wallet_id # NoneId /\ (c.wallet_id \notin Wallets \/ WalletUser(c.wallet_id) # c.user)

\* the trade of p has passed every guard that comes before its writes
PassesTradeChecks(p) ==
    LET c == call[p]
        option == FindOption(c.market, c.option_id, c.option_index)
    IN  /\ pc[p] = "trade_position"
        /\ \/ /\ c.op = "buy"
              /\ buy_checks(c, StateFor(c), option, BuyQuoteFor(c)) = "OK"
           \/ /\ c.op = "sell"
              /\ db.position[<<c.user, option>>].exists
              /\ db.position[<<c.user, option>>].shares > DUST_THRESHOLD
              /\ sell_checks(c, db.position[<<c.user, option>>], SellQuoteFor(c)) = "OK"

\* C34: execute_buy and execute_sell called with a wallet_id that does not belong
\* to the user fail, with WALLET_NOT_FOUND when the trade passes its other guards,
\* and nothing they wrote persists: the database is as before the call.
C34_ForeignWalletFails ==
    [][\A p \in Procs :
         (Ends(p) /\ call[p].op \in {"buy", "sell"} /\ ForeignWallet(call[p]))
         => /\ res'[p].code # "OK"
            /\ db' = db
            /\ PassesTradeChecks(p) => res'[p].code = "WALLET_NOT_FOUND"]_vars

\* a trade that fails with WALLET_NOT_FOUND after its writes leaves the database
\* as it was
WalletFailureRollsBack ==
    [][\A p \in Procs :
         /\ (Ends(p) /\ res'[p].code = "WALLET_NOT_FOUND") => db' = db
         /\ (Ends(p) /\ ForeignWallet(call[p]) /\ PassesTradeChecks(p))
               => res'[p].code = "WALLET_NOT_FOUND"]_vars

\* a buy has failed with WALLET_NOT_FOUND after an earlier buy went through
WalletFailureReached ==
    \E p \in Procs :
        /\ pc[p] = "done" /\ call[p].op = "buy" /\ res[p].code = "WALLET_NOT_FOUND"
        /\ Len(db.trades) = 1

\* what the committed deposits have credited to u1
DepositCredits ==
    SumOver([c \in Codes |-> IF dep.codes[c] = "used" THEN CodeAmount(c) ELSE 0], Codes)
    + SumOver([e \in Sessions |-> IF e \in dep.chain_events THEN SessionAmount(e) ELSE 0],
              Sessions)

\* what the committed buys have debited from u1
BuyDebits ==
    SumOver([i \in DOMAIN db.trades |->
                IF db.trades[i].user = DepositUser /\ db.trades[i].side = "buy"
                THEN db.trades[i].amount_in ELSE 0], DOMAIN db.trades)

\* C35: no update of a balance row is lost: with deposits (redeem_code, Stripe)
\* running concurrently with execute_buy for the same user and token, the committed
\* available_amount is the initial amount plus all credits minus all debits.
C35_NoLostUpdate ==
    db.balance[DepositKey].available_amount
        = InitDb.balance[DepositKey].available_amount + DepositCredits - BuyDebits

\* C36: once a market of an exclusive event has been partially settled (No won), its
\* option stats read 10000 bps for No and 0 for Yes in every later state, also after
\* trades on sibling markets, and the displayed probabilities of the markets still
\* open are the prices computed over the open outcomes only.
C36_SettledStatsStay ==
    funded.N > 0 =>
      /\ \A i \in 1..funded.N :
           (funded.status[i] = "resolved" /\ i # funded.winner)
           => funded.no_bps[i] = BPS /\ funded.yes_bps[i] = 0
      /\ (funded.event_active /\ funded.trades > 0 /\ Len(FundedOpen(funded)) > 0)
           => \A k \in 1..Len(FundedOpen(funded)) :
                 funded.yes_bps[FundedOpen(funded)[k]]
                    = FundedPrices(funded, FundedOpen(funded))[k]

\* C37: every trade debits or credits the user's balance in the pool's
\* collateral_token, the token in which settlement pays: no execute_buy or
\* execute_sell that goes through changes the balance the user holds in another token.
C37_TradesInPoolToken ==
    [][funded'.trades = funded.trades + 1
          => funded'.other_balance = funded.other_balance]_vars

\* what the ledger holds for a pool: the users' balances in its token, its cash and
\* its collateral
PoolLedger(d, pl) ==
    SumOver([u \in Users |-> d.balance[<<u, PoolRowStatic(pl).collateral_token>>].available_amount],
            Users)
      + d.pool[pl].pool_cash + d.pool[pl].collateral_amount

\* the same for the pool of an exclusive event and its two traders
FundedLedger(f) == f.balance + f.second.balance + f.pool_cash + f.collateral_amount

\* C38: over any sequence of successful and failed buys, sells and settlements on a
\* pool, concurrent buys of one user included, the sum of the users' balances in the
\* pool's token, pool_cash and collateral_amount stays what it was, and no balance,
\* pool_cash or collateral_amount is below 0.
C38_LedgerConserved ==
    /\ [][/\ \A pl \in Pools : PoolLedger(db', pl) = PoolLedger(db, pl)
          /\ FundedLedger(funded') = FundedLedger(funded)]_vars
    /\ [](/\ \A pl \in Pools :
               /\ db.pool[pl].pool_cash >= 0
               /\ db.pool[pl].collateral_amount >= 0
               /\ \A u \in Users :
                    db.balance[<<u, PoolRowStatic(pl).collateral_token>>].available_amount >= 0
          /\ funded.balance >= 0 /\ funded.second.balance >= 0
          /\ funded.pool_cash >= 0 /\ funded.collateral_amount >= 0)

\* q of option o less the shares all users hold on it
Unbacked(d, o) == d.q[o] - SumShares(d, o, Users)

\* C39: in a market-scoped pool the q of every outcome is at least the sum of the
\* users' position shares on it, and the two are equal as long as no dust cleanup
\* has occurred: only a dust cleanup changes their difference, and it raises it.
C39_SharesBacked ==
    /\ [](\A o \in Options : Unbacked(db, o) >= 0)
    /\ [][\A o \in Options :
            Unbacked(db', o) # Unbacked(db, o)
            => /\ Unbacked(db', o) > Unbacked(db, o)
               /\ \E p \in Procs : Ends(p) /\ res'[p].code = "OK" /\ res'[p].dust_cleanup]_vars

\* a buy has committed and a dust cleanup has removed its position: q is above the
\* shares held
C39_Witness ==
    \E o \in Options :
        /\ Unbacked(db, o) > 0
        /\ Unbacked(InitDb, o) = 0
        /\ Len(db.trades) > 0

\* a window is due: it has ended and no close_price is recorded
WindowDue(wn) == WindowEnd(wn) <= fin.now /\ fin.win[wn].close_price = NoneNum

\* C40: under a fair scheduler loop every window that is due and whose symbol has a
\* price is eventually settled, exactly once and without a failure for insufficient
\* funds, and its close_price is recorded, also when an earlier attempt failed or
\* stopped part-way.
C40_DueWindowSettled ==
    /\ \A wn \in Windows :
         (WindowDue(wn) /\ fin.price[WindowSymbol(wn)] # NoneNum)
            ~> (fin.win[wn].status = "resolved" /\ fin.win[wn].close_price # NoneNum)
    /\ [](\A wn \in Windows : fin.win[wn].settlements <= 1)
    /\ [](fin.failures = 0)

====
